---- MODULE Spec2Model ----
(***************************************************************************)
(* A model of the data-acquisition core of hdb-resale-intel:               *)
(*   - src/ingest_real/mrt_real.py      fetch_mrt_exits_real (4 tiers)     *)
(*   - src/ingest_real/schools_real.py  fetch_schools_real   (4 tiers)     *)
(*   - src/utils/geo.py                 cached_geocode_many                *)
(* The program is single-threaded: at most one call is active at a time.   *)
(* Files on disk are variables; what the network answers is chosen with \E *)
(* at the step that issues the request.                                    *)
(***************************************************************************)
EXTENDS Integers, Sequences, FiniteSets, TLC

\* ---------------------------------------------------------------- bounds
\* longest feature list / element list / table an input document holds
MaxFeatures == 2
\* longest key list given to cached_geocode_many
MaxKeys == 2
\* number of calls of cached_geocode_many in one behaviour
MaxCalls == 2
\* data rows of an optional CSV file
MaxCsvRows == 2
\* records of the primary HDB table
MaxRecords == 2
\* points and reference points given to _nearest_distance_m
MaxPoints == 2
MaxRefs == 2
\* _ckan_fetch_all: the largest page limit and the largest resource
MaxLimit == 4
MaxResource == 4
\* _parse_description: the longest run of blanks (or of the letter s)
\* between a header cell and its value cell
MaxPad == 2

\* len(endpoints) in _overpass_fallback
NumEndpoints == 3

\* ------------------------------------------------------------- constants
\* Python's None, and the one coordinate value input documents carry
None == "None"
LatVal == "1.30"
LonVal == "103.80"

SeqUpTo(S, n) == UNION {[1..k -> S] : k \in 0..n}

\* mrt_real.TOWN_CENTROIDS, in dict order
TOWN_CENTROIDS ==
  << <<"ANG MO KIO", "1.3691", "103.8454">>,
     <<"BEDOK", "1.3236", "103.9273">>,
     <<"BISHAN", "1.3508", "103.8485">>,
     <<"BUKIT BATOK", "1.3502", "103.7513">>,
     <<"BUKIT MERAH", "1.2773", "103.8195">>,
     <<"BUKIT PANJANG", "1.3786", "103.7623">>,
     <<"BUKIT TIMAH", "1.3294", "103.8021">>,
     <<"CENTRAL AREA", "1.2893", "103.8519">>,
     <<"CHOA CHU KANG", "1.3854", "103.7445">>,
     <<"CLEMENTI", "1.3151", "103.7643">>,
     <<"GEYLANG", "1.3146", "103.8935">>,
     <<"HOUGANG", "1.3612", "103.8863">>,
     <<"JURONG EAST", "1.3331", "103.7436">>,
     <<"JURONG WEST", "1.3405", "103.7090">>,
     <<"KALLANG/WHAMPOA", "1.3138", "103.8574">>,
     <<"MARINE PARADE", "1.3013", "103.9050">>,
     <<"PASIR RIS", "1.3721", "103.9490">>,
     <<"PUNGGOL", "1.4050", "103.9020">>,
     <<"QUEENSTOWN", "1.2941", "103.7865">>,
     <<"SEMBAWANG", "1.4491", "103.8190">>,
     <<"SENGKANG", "1.3933", "103.8957">>,
     <<"SERANGOON", "1.3522", "103.8670">>,
     <<"TAMPINES", "1.3526", "103.9447">>,
     <<"TOA PAYOH", "1.3333", "103.8500">>,
     <<"WOODLANDS", "1.4360", "103.7865">>,
     <<"YISHUN", "1.4304", "103.8353">> >>

\* ------------------------------------------------------------------ state
VARIABLES
  fn,        \* the ingestion function of the current (or last) call
  pc,        \* position in that call: "idle", "tier1".."tier4", "done"
  log,       \* the acquisition attempts of the call, in the order made
  result,    \* "none" while running, then "returned" or "raised"
  endpoint,  \* the Overpass mirror _overpass_try contacts next (0: not in it)
  mrt_out,   \* data/raw/mrt/mrt_exits.csv              [exists, rows]
  local_gj,  \* data/raw/mrt/mrt_exits.geojson (or .json) [kind, features]
  sch_out,   \* data/raw/schools/schools.csv            [kind, rows]
  cache_file,\* the geocode cache CSV (key,lat,lon)      [exists, rows, form]
  geo_pc,    \* position in cached_geocode_many: "idle", "loop", "done",
             \* "raised"
  values,    \* its argument
  idx,       \* the element of `values` the loop stands at
  cache,     \* its dict `cache`: key -> <<lat, lon>>
  new_rows,  \* its list `new_rows`
  lookups,   \* the calls of geocode_onemap it made, in order
  calls,     \* calls of cached_geocode_many started so far
  load_file,     \* the file behind the path given to _load_optional_csv
  load_required, \* its argument required_cols
  load_result,   \* what it returned                    [called, none, rows]
  feat_pc,       \* position in features.main: "idle", "join", "centroid",
                 \* "distances", "write", "done", "raised"
  hdb_file,      \* the primary HDB CSV _find_hdb_csv finds [found, has_town, rows]
  geo_file,      \* block_street_geocodes.csv            [kind, cols, rows]
  mrt_file,      \* mrt_exits.csv as features.main finds it
  schools_file,  \* schools.csv as features.main finds it
  hdb,           \* main's data frame `hdb`, a sequence of records
  geo_df,        \* main's geo_df                         [none, rows]
  features_out,  \* data/processed/features_real.csv     [exists, rows]
  nd_points,     \* _nearest_distance_m's points_df, a sequence of [lat, lon]
  nd_ref,        \* its ref_df                            [none, rows]
  nd_batch,      \* its batch
  nd_out,        \* what it returned                     [called, vals]
  nd_prev,       \* what an earlier call returned  [kind, vals]; kind is
                 \* "none", "batch" (same inputs, other batch size) or
                 \* "ref" (same points, the table without its last row)
  hdbr_pc,       \* position in fetch_hdb_resale_real: "idle", "done"
  hdbr_result,   \* "none", "returned", "FileNotFoundError" or "ReadError"
  hdbr_out,      \* the file at out_path                 [kind, cols, rows]
  hdbr_same,     \* local_fallback is None (or names out_path itself)
  hdbr_fallback, \* the file at local_fallback when it is another path
  hdbr_seen,     \* what the call met: how _ckan_fetch_all ended and the
                 \* fallback file as it stood              [ckan, fallback]
  poll_pc,       \* position in poll_download: "off" (not stepped: tier 1
                 \* takes its outcome whole), "idle", "request", "sleep",
                 \* "url", "timeout", "http_error"
  poll_trace,    \* the polls and sleeps of its last call   [ev, s]
  ck_pc,         \* position in _ckan_fetch_all: "idle", "loop", "done",
                 \* "raised"
  ck_limit_start,\* its argument limit_start
  ck_min_limit,  \* its argument min_limit
  ck_records,    \* the number of records the resource holds; record i
                 \* is the one at offset i - 1
  ck_limit,      \* its local `limit`
  ck_offset,     \* its local `offset`
  ck_frames,     \* the records of `frames`, in the order appended
  ck_backoffs,   \* consecutive 422 retries at the current offset
  ck_last,       \* the last response: "none", "422", "page", "empty",
                 \* "error"
  pd_desc,       \* the argument of _parse_description [isstr, station,
                 \* exit_code, exit_first]
  pd_out         \* what it returned          [called, station, exit_code]

ingestVars == <<fn, pc, log, result, endpoint, mrt_out, local_gj, sch_out>>
geoVars == <<cache_file, geo_pc, values, idx, cache, new_rows, lookups, calls>>
loadVars == <<load_file, load_required, load_result>>
mainVars == <<feat_pc, hdb_file, geo_file, mrt_file, schools_file, hdb, geo_df,
              features_out>>
nearVars == <<nd_points, nd_ref, nd_batch, nd_out, nd_prev>>
featVars == <<loadVars, mainVars, nearVars>>
hdbrVars == <<hdbr_pc, hdbr_result, hdbr_out, hdbr_same, hdbr_fallback, hdbr_seen>>
pollVars == <<poll_pc, poll_trace>>
ckanVars == <<ck_pc, ck_limit_start, ck_min_limit, ck_records, ck_limit, ck_offset,
              ck_frames, ck_backoffs, ck_last>>
parseVars == <<pd_desc, pd_out>>
moreVars == <<ckanVars, parseVars>>
restVars == <<hdbrVars, pollVars, moreVars>>
vars == <<ingestVars, geoVars, featVars, restVars>>

\* ------------------------------------------------- documents and tables
\* A GeoJSON feature is modelled by its geometry.coordinates array: empty
\* (geometry or coordinates missing), one element, or [lon, lat].
Features == {<<>>, <<LonVal>>, <<LonVal, LatVal>>}

\* A GeoJSON document: unparseable (json.load / .json() raises, or the value
\* is no object), or an object with a feature list.
GeoJsonDocs ==
  {[kind |-> "malformed", features |-> <<>>]} \cup
  {[kind |-> "doc", features |-> fs] : fs \in SeqUpTo(Features, MaxFeatures)}

AbsentFile == [kind |-> "absent", features |-> <<>>]

\* mrt_exits.csv: absent, or present with its data rows
NoCsv == [exists |-> FALSE, rows |-> <<>>]
Csv(rows) == [exists |-> TRUE, rows |-> rows]

\* lines 70-81 and 163-174: one row per feature
FeatureRow(coordinates) ==
  LET coords == IF coordinates = <<>> THEN <<None, None>> ELSE coordinates
  IN  [station_name |-> "STN", lat |-> coords[2], lon |-> coords[1]]

\* coords[1] on a one-element array raises IndexError
FeatureRaises(coordinates) == Len(coordinates) = 1

ParseRaises(doc) ==
  \/ doc.kind = "malformed"
  \/ \E i \in 1..Len(doc.features) : FeatureRaises(doc.features[i])

RowsOfFeatures(features) ==
  [i \in 1..Len(features) |-> FeatureRow(features[i])]

\* DataFrame.dropna(subset=["lat","lon"])
DropNa(rows) == SelectSeq(rows, LAMBDA r : r.lat # None /\ r.lon # None)

\* _write_csv: the table written to `out`
_write_csv(rows) == Csv(DropNa(rows))

\* One acquisition attempt: the tier, how it ended ("ok": the function
\* returned from it, "fail": control passed on, "raise": an exception left
\* the function), the table it wrote, and what its network calls did
\* ("error": none answered, "answer", "local": it made none).
Attempt(tier, res, table, net) ==
  [tier |-> tier, result |-> res, table |-> table, net |-> net]

\* ------------------------------------------------ fetch_mrt_exits_real
\* What the Data.gov.sg tier receives: an error (poll_download raised or
\* timed out, requests.get raised), or the document behind the URL.
RemoteError == [kind |-> "error", features |-> <<>>]
RemoteOutcomes == {RemoteError} \cup GeoJsonDocs

\* Attempt 1 (lines 158-180): the whole attempt is inside try/except; it
\* returns only when the parsed row list is non-empty (line 175), and the
\* rows without coordinates are dropped afterwards, in _write_csv.
Tier1Returns(remote) ==
  /\ remote.kind = "doc"
  /\ ~ParseRaises(remote)
  /\ RowsOfFeatures(remote.features) # <<>>

\* a local tier that falls back on the table an earlier run persisted
LocalTierReadsPersistedCsv(file) ==
  IF file.kind = "absent"
  THEN IF mrt_out.exists THEN [outcome |-> "path", table |-> mrt_out]
       ELSE [outcome |-> "None", table |-> NoCsv]
  ELSE IF ParseRaises(file) THEN [outcome |-> "raise", table |-> NoCsv]
  ELSE [outcome |-> "path", table |-> _write_csv(RowsOfFeatures(file.features))]

\* Attempt 2 (lines 60-82): None when the file is absent; an exception of
\* json.load or of the row loop is not caught; otherwise the rows, empty or
\* not, are written and the path is returned.
_try_parse_local_geojson(file) ==
  IF file.kind = "absent" THEN [outcome |-> "None", table |-> NoCsv]
  ELSE IF ParseRaises(file) THEN [outcome |-> "raise", table |-> NoCsv]
  ELSE [outcome |-> "path", table |-> _write_csv(RowsOfFeatures(file.features))]

\* An Overpass element: a way, a node with coordinates, a node without.
OverpassElements ==
  { [type |-> "way",  lat |-> None,   lon |-> None],
    [type |-> "node", lat |-> LatVal, lon |-> LonVal],
    [type |-> "node", lat |-> None,   lon |-> None] }

\* One mirror's answer: an error (exception, HTTP status, bad JSON) or a
\* JSON object with its element list (<<>> also stands for the object {}).
OverpassError == [kind |-> "error", elements |-> <<>>]
OverpassResponses ==
  {OverpassError} \cup
  {[kind |-> "json", elements |-> es] : es \in SeqUpTo(OverpassElements, MaxFeatures)}

\* lines 121-126: one row per node element
OverpassRows(elements) ==
  LET nodes == SelectSeq(elements, LAMBDA el : el.type = "node")
  IN  [i \in 1..Len(nodes) |->
         [station_name |-> "OSM", lat |-> nodes[i].lat, lon |-> nodes[i].lon]]

\* a variant that writes the table before it tests for rows
OverpassWritesBeforeCheck(data, out_csv) ==
  [outcome |-> IF OverpassRows(data.elements) = <<>> THEN "None" ELSE "path",
   table |-> _write_csv(OverpassRows(data.elements))]

\* _overpass_fallback after _overpass_try gave `data` (lines 118-129);
\* `table` is the file at out_csv when the function is left: untouched
\* when it returns None (lines 118-119, 127-128), written otherwise
_overpass_fallback(data, out_csv) ==
  IF data.elements = <<>> \/ OverpassRows(data.elements) = <<>>
  THEN [outcome |-> "None", table |-> out_csv]
  ELSE [outcome |-> "path", table |-> _write_csv(OverpassRows(data.elements))]

\* _proxy_from_town_centroids (lines 131-145)
_proxy_from_town_centroids ==
  _write_csv([i \in 1..Len(TOWN_CENTROIDS) |->
      [station_name |-> "MRT Proxy", lat |-> TOWN_CENTROIDS[i][2],
       lon |-> TOWN_CENTROIDS[i][3]]])

\* a chain that goes from the remote tier straight to Overpass
NextTierSkipsLocal(k) == IF k = 1 THEN 3 ELSE k + 1

\* the statement executed after attempt k fell through (lines 182-193)
NextTier(k) == k + 1

TierPc(k) == CASE k = 1 -> "tier1" [] k = 2 -> "tier2" [] k = 3 -> "tier3"
               [] k = 4 -> "tier4" [] OTHER -> "done"

Returned(k, table, net) ==
  /\ log' = Append(log, Attempt(k, "ok", table.rows, net))
  /\ pc' = "done"
  /\ result' = "returned"

FellThroughTo(k, next, net) ==
  /\ log' = Append(log, Attempt(k, "fail", <<>>, net))
  /\ pc' = TierPc(next)
  /\ result' = "none"

FellThrough(k, net) == FellThroughTo(k, NextTier(k), net)

Raised(k, net) ==
  /\ log' = Append(log, Attempt(k, "raise", <<>>, net))
  /\ pc' = "done"
  /\ result' = "raised"

\* ------------------------------------------------------- poll_download
\* datagov.poll_download's defaults (line 46)
retries == 60
sleep_s == 2

\* an entry of poll_trace: a poll with what it reported, or a sleep
PollEvent(ev) == [ev |-> ev, s |-> 0]
SleepEvent == [ev |-> "sleep", s |-> sleep_s]

\* what one poll request may report: a URL, no URL yet, or an HTTP error
\* (raise_for_status, line 57)
PollAnswers == {"url", "not_ready", "error"}

Polls(trace) == Cardinality({i \in DOMAIN trace : trace[i].ev # "sleep"})

InRangeInclusive(polls) == polls <= retries

\* `for _ in range(retries)` (line 55): another pass is due
InRange(polls) == polls < retries

PollAtRest ==
  /\ poll_pc = "off"
  /\ poll_trace = <<>>

\* What the Data.gov.sg tier receives once poll_download has ended: an
\* exception of poll_download is the tier's exception (lines 159-180); with
\* a URL the download and the parse may still fail.
Tier1Outcomes(p) ==
  IF p \in {"timeout", "http_error"} THEN {RemoteError} ELSE RemoteOutcomes

MrtStart ==
  /\ pc \in {"idle", "done"}
  /\ fn' = "mrt"
  /\ pc' = "tier1"
  /\ log' = <<>>
  /\ result' = "none"
  /\ UNCHANGED <<endpoint, mrt_out, local_gj, sch_out>>
  /\ UNCHANGED <<geoVars, featVars, restVars>>

MrtTier1 ==
  /\ fn = "mrt" /\ pc = "tier1"
  /\ poll_pc \in {"off", "url", "timeout", "http_error"}
  /\ \E remote \in Tier1Outcomes(poll_pc) :
       IF Tier1Returns(remote)
       THEN /\ mrt_out' = _write_csv(RowsOfFeatures(remote.features))
            /\ Returned(1, mrt_out', "answer")
       ELSE /\ FellThrough(1, IF remote.kind = "error" THEN "error" ELSE "answer")
            /\ UNCHANGED mrt_out
  /\ endpoint' = 0
  /\ poll_pc' = IF poll_pc = "off" THEN "off" ELSE "idle"
  /\ UNCHANGED <<fn, local_gj, sch_out, poll_trace>>
  /\ UNCHANGED <<geoVars, featVars, hdbrVars, moreVars>>

\* poll_download, stepped one request or one sleep at a time, as tier 1 of
\* fetch_mrt_exits_real calls it (line 160)
PollStart ==
  /\ fn = "mrt" /\ pc = "tier1"
  /\ poll_pc = "idle"
  /\ poll_pc' = "request"
  /\ poll_trace' = <<>>
  /\ UNCHANGED <<ingestVars, geoVars, featVars, hdbrVars, moreVars>>

\* lines 56-62: one request; a URL is returned, an HTTP error raised
PollRequest ==
  /\ poll_pc = "request"
  /\ InRange(Polls(poll_trace))
  /\ \E answer \in PollAnswers :
       /\ poll_trace' = Append(poll_trace, PollEvent(answer))
       /\ poll_pc' = CASE answer = "url" -> "url"
                        [] answer = "error" -> "http_error"
                        [] OTHER -> "sleep"
  /\ UNCHANGED <<ingestVars, geoVars, featVars, hdbrVars, moreVars>>

\* line 63
PollSleep ==
  /\ poll_pc = "sleep"
  /\ poll_trace' = Append(poll_trace, SleepEvent)
  /\ poll_pc' = "request"
  /\ UNCHANGED <<ingestVars, geoVars, featVars, hdbrVars, moreVars>>

\* line 64: the loop ran out
PollTimeout ==
  /\ poll_pc = "request"
  /\ ~InRange(Polls(poll_trace))
  /\ poll_pc' = "timeout"
  /\ UNCHANGED <<poll_trace, ingestVars, geoVars, featVars, hdbrVars, moreVars>>

MrtTier2 ==
  /\ fn = "mrt" /\ pc = "tier2"
  /\ LET local == _try_parse_local_geojson(local_gj)
     IN  CASE local.outcome = "path" ->
                /\ mrt_out' = local.table
                /\ Returned(2, mrt_out', "local")
                /\ endpoint' = 0
           [] local.outcome = "raise" ->
                /\ Raised(2, "local")
                /\ UNCHANGED <<mrt_out, endpoint>>
           [] OTHER ->
                /\ FellThrough(2, "local")
                /\ endpoint' = IF NextTier(2) = 3 THEN 1 ELSE 0
                /\ UNCHANGED mrt_out
  /\ UNCHANGED <<fn, local_gj, sch_out>>
  /\ UNCHANGED <<geoVars, featVars, restVars>>

\* one pass of the loop of _overpass_try (lines 86-93); when a mirror
\* answers, or the last one failed, the rest of _overpass_fallback runs
MrtTier3 ==
  /\ fn = "mrt" /\ pc = "tier3"
  /\ \E resp \in OverpassResponses :
       IF resp.kind = "error"
       THEN IF endpoint < NumEndpoints
            THEN /\ endpoint' = endpoint + 1
                 /\ UNCHANGED <<pc, log, result, mrt_out>>
            ELSE /\ FellThrough(3, "error")
                 /\ endpoint' = 0
                 /\ UNCHANGED mrt_out
       ELSE LET r == _overpass_fallback(resp, mrt_out)
            IN  /\ endpoint' = 0
                /\ mrt_out' = r.table
                /\ IF r.outcome = "path"
                   THEN Returned(3, mrt_out', "answer")
                   ELSE FellThrough(3, "answer")
  /\ UNCHANGED <<fn, local_gj, sch_out>>
  /\ UNCHANGED <<geoVars, featVars, restVars>>

MrtTier4 ==
  /\ fn = "mrt" /\ pc = "tier4"
  /\ mrt_out' = _proxy_from_town_centroids
  /\ Returned(4, mrt_out', "local")
  /\ UNCHANGED <<fn, endpoint, local_gj, sch_out>>
  /\ UNCHANGED <<geoVars, featVars, restVars>>

\* ---------------------------------------------------- fetch_schools_real
\* A row of a schools table, with or without coordinates.
SchoolRows ==
  { [school_name |-> "SCH", lat |-> LatVal, lon |-> LonVal],
    [school_name |-> "SCH", lat |-> None,   lon |-> None] }

SchoolTables == SeqUpTo(SchoolRows, MaxFeatures)

\* schools.csv: absent, a file pandas.read_csv raises on (zero bytes, not a
\* table), or a table with its data rows
NoSchoolsCsv == [kind |-> "absent", rows |-> <<>>]
GarbageCsv == [kind |-> "garbage", rows |-> <<>>]
SchoolsCsv(rows) == [kind |-> "table", rows |-> rows]

\* What tier 1 (poll_download + read_csv) and tier 2 (list_rows) receive: an
\* exception anywhere in the attempt, or the rows of the dataset. For tier 2
\* no row means that list_rows yielded no page.
SchRemoteError == [kind |-> "error", rows |-> <<>>]
SchRemoteOutcomes ==
  {SchRemoteError} \cup {[kind |-> "table", rows |-> t] : t \in SchoolTables}

\* _geocode_if_needed (lines 25-61): a table with lat/lon columns is returned
\* as it is; otherwise every row gets the coordinate OneMap finds for it, or
\* None. found[i] says whether the lookup for row i resolves.
_geocode_if_needed(rows, found) ==
  IF \E i \in 1..Len(rows) : rows[i].lat # None
  THEN rows
  ELSE [i \in 1..Len(rows) |->
          IF found[i]
          THEN [school_name |-> rows[i].school_name, lat |-> LatVal, lon |-> LonVal]
          ELSE rows[i]]

\* _try_local_csv (lines 63-76): the local file is `out` itself
_try_local_csv(file, found) ==
  IF file.kind = "absent" THEN [outcome |-> "None", table |-> NoSchoolsCsv]
  ELSE IF file.kind = "garbage" THEN [outcome |-> "raise", table |-> NoSchoolsCsv]
  ELSE [outcome |-> "path", table |-> SchoolsCsv(_geocode_if_needed(file.rows, found))]

\* _osm_fallback (lines 78-106): the request is not guarded, an empty row
\* list raises RuntimeError, and rows are written without dropping any
SchoolOsmRows(elements) ==
  LET nodes == SelectSeq(elements, LAMBDA el : el.type = "node")
  IN  [i \in 1..Len(nodes) |->
         [school_name |-> "OSM", lat |-> nodes[i].lat, lon |-> nodes[i].lon]]

_osm_fallback(resp) ==
  IF resp.kind = "error" \/ SchoolOsmRows(resp.elements) = <<>>
  THEN [outcome |-> "raise", table |-> NoSchoolsCsv]
  ELSE [outcome |-> "path", table |-> SchoolsCsv(SchoolOsmRows(resp.elements))]

\* the statement executed after attempt k of fetch_schools_real fell through
SchNextTier(k) == k + 1

SchStart ==
  /\ pc \in {"idle", "done"}
  /\ fn' = "schools"
  /\ pc' = "tier1"
  /\ log' = <<>>
  /\ result' = "none"
  /\ UNCHANGED <<endpoint, mrt_out, local_gj, sch_out>>
  /\ UNCHANGED <<geoVars, featVars, restVars>>

\* Attempt 1 (lines 119-128)
SchTier1 ==
  /\ fn = "schools" /\ pc = "tier1"
  /\ \E remote \in SchRemoteOutcomes :
       IF remote.kind = "table"
       THEN \E found \in [1..Len(remote.rows) -> BOOLEAN] :
              /\ sch_out' = SchoolsCsv(_geocode_if_needed(remote.rows, found))
              /\ Returned(1, sch_out', "answer")
       ELSE /\ FellThroughTo(1, SchNextTier(1),
                           IF remote.kind = "error" THEN "error" ELSE "answer")
            /\ UNCHANGED sch_out
  /\ UNCHANGED <<fn, endpoint, mrt_out, local_gj>>
  /\ UNCHANGED <<geoVars, featVars, restVars>>

\* Attempt 2 (lines 130-152): written only when list_rows yielded a page
SchTier2 ==
  /\ fn = "schools" /\ pc = "tier2"
  /\ \E remote \in SchRemoteOutcomes :
       IF remote.kind = "table" /\ remote.rows # <<>>
       THEN \E found \in [1..Len(remote.rows) -> BOOLEAN] :
              /\ sch_out' = SchoolsCsv(_geocode_if_needed(remote.rows, found))
              /\ Returned(2, sch_out', "answer")
       ELSE /\ FellThroughTo(2, SchNextTier(2),
                           IF remote.kind = "error" THEN "error" ELSE "answer")
            /\ UNCHANGED sch_out
  /\ UNCHANGED <<fn, endpoint, mrt_out, local_gj>>
  /\ UNCHANGED <<geoVars, featVars, restVars>>

\* Attempt 3 (lines 154-157)
SchTier3 ==
  /\ fn = "schools" /\ pc = "tier3"
  /\ \E found \in [1..Len(sch_out.rows) -> BOOLEAN] :
       LET local == _try_local_csv(sch_out, found)
       IN  CASE local.outcome = "path" ->
                  /\ sch_out' = local.table
                  /\ Returned(3, sch_out', "local")
             [] local.outcome = "raise" ->
                  /\ Raised(3, "local")
                  /\ UNCHANGED sch_out
             [] OTHER ->
                  /\ FellThroughTo(3, SchNextTier(3), "local")
                  /\ UNCHANGED sch_out
  /\ UNCHANGED <<fn, endpoint, mrt_out, local_gj>>
  /\ UNCHANGED <<geoVars, featVars, restVars>>

\* Attempt 4 (lines 159-161)
SchTier4 ==
  /\ fn = "schools" /\ pc = "tier4"
  /\ \E resp \in OverpassResponses :
       LET osm == _osm_fallback(resp)
       IN  IF osm.outcome = "path"
           THEN /\ sch_out' = osm.table
                /\ Returned(4, sch_out', "answer")
           ELSE /\ Raised(4, IF resp.kind = "error" THEN "error" ELSE "answer")
                /\ UNCHANGED sch_out
  /\ UNCHANGED <<fn, endpoint, mrt_out, local_gj>>
  /\ UNCHANGED <<geoVars, featVars, restVars>>

\* The files a user may have placed before the first call: the local
\* GeoJSON file, and a schools.csv of their own. mrt_exits.csv is written
\* by the tiers only.
LocalFiles == GeoJsonDocs \cup {AbsentFile}
SchoolsFiles == {NoSchoolsCsv, GarbageCsv} \cup {SchoolsCsv(t) : t \in SchoolTables}

IngestAtRest ==
  /\ fn = "mrt"
  /\ pc = "idle"
  /\ log = <<>>
  /\ result = "none"
  /\ endpoint = 0
  /\ mrt_out = NoCsv

NextIngest ==
  \/ MrtStart
  \/ MrtTier1
  \/ MrtTier2
  \/ MrtTier3
  \/ MrtTier4
  \/ SchStart
  \/ SchTier1
  \/ SchTier2
  \/ SchTier3
  \/ SchTier4


\* ------------------------------------------------- cached_geocode_many
\* The keys callers pass: an address, a postal code, a string pandas reads
\* as a missing value, and a string that is empty after .strip().
AddressKey == "BLK 1 A ST Singapore"
PostalKey == "560123"
NaKey == "NA"
BlankKey == " "
GeoKeys == {AddressKey, PostalKey, NaKey, BlankKey}

NaTokens == {NaKey}
NumericKeys == {PostalKey}
\* str(float(560123))
PostalKeyAsFloat == "560123.0"
Strip(key) == IF key = BlankKey THEN "" ELSE key

\* the coordinates OneMap may return
GeoCoords == {<<"1.30", "103.80">>, <<"1.31", "103.81">>}

\* The cache file: whether it exists, its data rows, and the form of what
\* is on disk: "csv" (a header key,lat,lon and the rows), "zero_bytes",
\* "unreadable" (no permission, or bytes that are no text), "wrong_header"
\* (a CSV whose header has no key, lat and lon columns).
NoCache == [exists |-> FALSE, rows |-> <<>>, form |-> "csv"]
ZeroByteCache == [exists |-> TRUE, rows |-> <<>>, form |-> "zero_bytes"]
UnreadableCache == [exists |-> TRUE, rows |-> <<>>, form |-> "unreadable"]
\* a file of other columns, without and with a data row
ForeignHeaderOnly == [exists |-> TRUE, rows |-> <<>>, form |-> "wrong_header"]
ForeignTable ==
  [exists |-> TRUE,
   rows |-> <<[key |-> "BLK 1 A ST Singapore", lat |-> "1.30", lon |-> "103.80"]>>,
   form |-> "wrong_header"]
CacheFiles == {NoCache, ZeroByteCache, UnreadableCache, ForeignHeaderOnly, ForeignTable}

\* lines 38-40 are in no try: pd.read_csv raises EmptyDataError on a file
\* of zero bytes and an OSError or a decoding error on an unreadable one;
\* row["key"] raises KeyError on the first row of a file without that
\* column (a file without rows gives the loop nothing to raise on).
LoadRaises(file) ==
  /\ file.exists
  /\ \/ file.form \in {"zero_bytes", "unreadable"}
     \/ file.form = "wrong_header" /\ file.rows # <<>>
EmptyDict == [k \in {} |-> <<None, None>>]
Put(d, k, v) == [x \in DOMAIN d \cup {k} |-> IF x = k THEN v ELSE d[x]]

\* str(row["key"]) for a row that pd.read_csv and iterrows give back
\* (line 40): a field that is one of pandas' NA strings is read as NaN, and
\* str(nan) is "nan"; when every key of the file is a number or NA the
\* column is numeric, iterrows makes the row float64 next to lat and lon,
\* and str gives the float's text; any other key comes back as written.
CsvReadKey(key, rows) ==
  IF key \in NaTokens THEN "nan"
  ELSE IF \A i \in DOMAIN rows : rows[i].key \in NumericKeys \cup NaTokens
       THEN PostalKeyAsFloat
       ELSE key

\* float(row["lat"]): OneMap's coordinates have at most 15 significant
\* digits; to_csv writes the shortest text that reads back as the same
\* float, so the value loaded is the value written
CsvReadFloat(x) == x

\* lines 35-40: the file's rows, in order, later rows overwriting earlier
RECURSIVE LoadRows(_, _, _)
LoadRows(rows, i, acc) ==
  IF i > Len(rows) THEN acc
  ELSE LoadRows(rows, i + 1,
         Put(acc, CsvReadKey(rows[i].key, rows),
             <<CsvReadFloat(rows[i].lat), CsvReadFloat(rows[i].lon)>>))

LoadCache(file) == IF file.exists THEN LoadRows(file.rows, 1, EmptyDict) ELSE EmptyDict

\* geocode_onemap (lines 9-31): what the request does. "error": an
\* exception before the pause (connection, timeout, HTTP status, bad JSON);
\* "empty": no result; "badnum": a first result whose LATITUDE or LONGITUDE
\* float() rejects; "found": a first result with coordinates.
LookupOutcomes ==
  {[kind |-> k, coords |-> <<None, None>>] : k \in {"error", "empty", "badnum"}} \cup
  {[kind |-> "found", coords |-> c] : c \in GeoCoords}

geocode_onemap(outcome) ==
  [found |-> outcome.kind = "found",
   coords |-> outcome.coords,
   slept |-> outcome.kind # "error"]

\* line 45: the keys the loop passes over without a lookup
Skipped(key, d) == key \in DOMAIN d \/ Strip(key) = ""

\* a write that replaces the file by the new rows
WriteCacheTruncating(file, rows) ==
  IF rows = <<>> THEN file ELSE [file EXCEPT !.exists = TRUE, !.rows = rows]

\* lines 52-58: nothing is written without new rows; an existing file is
\* appended to (mode="a", no header), a missing one is created
WriteCache(file, rows) ==
  IF rows = <<>> THEN file
  ELSE IF file.exists THEN [file EXCEPT !.rows = file.rows \o rows]
  ELSE [file EXCEPT !.exists = TRUE, !.rows = rows]

GeoCall ==
  /\ geo_pc \in {"idle", "done", "raised"}
  /\ calls < MaxCalls
  /\ ~LoadRaises(cache_file)
  /\ \E vs \in SeqUpTo(GeoKeys, MaxKeys) : values' = vs
  /\ cache' = LoadCache(cache_file)
  /\ new_rows' = <<>>
  /\ lookups' = <<>>
  /\ idx' = 1
  /\ geo_pc' = "loop"
  /\ calls' = calls + 1
  /\ UNCHANGED cache_file
  /\ UNCHANGED <<ingestVars, featVars, restVars>>

\* a call that ends in the load of lines 36-40
GeoCallRaises ==
  /\ geo_pc \in {"idle", "done", "raised"}
  /\ calls < MaxCalls
  /\ LoadRaises(cache_file)
  /\ \E vs \in SeqUpTo(GeoKeys, MaxKeys) : values' = vs
  /\ cache' = EmptyDict
  /\ new_rows' = <<>>
  /\ lookups' = <<>>
  /\ idx' = 1
  /\ geo_pc' = "raised"
  /\ calls' = calls + 1
  /\ UNCHANGED cache_file
  /\ UNCHANGED <<ingestVars, featVars, restVars>>

GeoSkip ==
  /\ geo_pc = "loop"
  /\ idx <= Len(values)
  /\ Skipped(values[idx], cache)
  /\ idx' = idx + 1
  /\ UNCHANGED <<cache_file, geo_pc, values, cache, new_rows, lookups, calls>>
  /\ UNCHANGED <<ingestVars, featVars, restVars>>

GeoLookup ==
  /\ geo_pc = "loop"
  /\ idx <= Len(values)
  /\ ~Skipped(values[idx], cache)
  /\ \E outcome \in LookupOutcomes :
       LET key == values[idx]
           got == geocode_onemap(outcome)
       IN  /\ lookups' = Append(lookups,
                 [key |-> key, found |-> got.found, slept |-> got.slept])
           /\ IF got.found
              THEN /\ cache' = Put(cache, key, got.coords)
                   /\ new_rows' = Append(new_rows,
                         [key |-> key, lat |-> got.coords[1], lon |-> got.coords[2]])
              ELSE UNCHANGED <<cache, new_rows>>
  /\ idx' = idx + 1
  /\ UNCHANGED <<cache_file, geo_pc, values, calls>>
  /\ UNCHANGED <<ingestVars, featVars, restVars>>

GeoWrite ==
  /\ geo_pc = "loop"
  /\ idx > Len(values)
  /\ cache_file' = WriteCache(cache_file, new_rows)
  /\ geo_pc' = "done"
  /\ UNCHANGED <<values, idx, cache, new_rows, lookups, calls>>
  /\ UNCHANGED <<ingestVars, featVars, restVars>>

GeoAtRest ==
  /\ cache_file = NoCache
  /\ geo_pc = "idle"
  /\ values = <<>>
  /\ idx = 1
  /\ cache = EmptyDict
  /\ new_rows = <<>>
  /\ lookups = <<>>
  /\ calls = 0

NextGeo ==
  \/ GeoCall
  \/ GeoSkip
  \/ GeoLookup
  \/ GeoWrite

\* ------------------------------------------------- _load_optional_csv
\* A number of a data frame: a float, held as a whole number of 1e-4
\* degrees, or NaN.
Num(n) == [nan |-> FALSE, v |-> n]
NaN == [nan |-> TRUE, v |-> 0]

\* The text of a CSV cell: a latitude, a longitude, nothing, no number.
LatText == "1.3513"
LonText == "103.8486"
EmptyCell == ""
JunkCell == "abc"
LatCells == {LatText, EmptyCell, JunkCell}
LonCells == {LonText, EmptyCell}

\* pd.to_numeric(column, errors="coerce") on a cell (lines 184, 186)
to_numeric(text) ==
  CASE text = LatText -> Num(13513)
    [] text = LonText -> Num(1038486)
    [] OTHER -> NaN

\* block and street_name as texts of a CSV, one of them padded
BlockText == "10A"
PaddedBlockText == "10A "
OtherBlockText == "20"
StreetText == "BISHAN ST 1"
\* .astype(str).str.strip() (lines 191, 200, 240)
StrStrip(text) ==
  CASE text = PaddedBlockText -> BlockText
    [] text = "bishan " -> "bishan"
    [] OTHER -> text

RefCols == {"lat", "lon"}
GeoCols == {"block", "street_name", "lat", "lon"}

\* An optional CSV on disk: absent, of zero bytes, one pd.read_csv raises
\* on, or a table with its column names and rows; a row has the cells
\* block, street_name, lat, lon (cells of columns the file lacks are unused).
CsvRow(b, la, lo) == [block |-> b, street_name |-> StreetText, lat |-> la, lon |-> lo]
CsvRows == {CsvRow(b, la, lo) : b \in {PaddedBlockText, OtherBlockText},
                                 la \in LatCells, lo \in LonCells}
AbsentCsv == [kind |-> "absent", cols |-> {}, rows |-> <<>>]
ZeroByteCsv == [kind |-> "zero_bytes", cols |-> {}, rows |-> <<>>]
UnparseableCsv == [kind |-> "unparseable", cols |-> {}, rows |-> <<>>]
CsvTable(cols, rows) == [kind |-> "table", cols |-> cols, rows |-> rows]
OptionalCsvs ==
  {AbsentCsv, ZeroByteCsv, UnparseableCsv} \cup
  {CsvTable(cols, rows) : cols \in {GeoCols, RefCols, {"lat"}, {"block", "lat", "lon"}},
                          rows \in SeqUpTo(CsvRows, MaxCsvRows)}

\* what _load_optional_csv returns: None, or a data frame
NoFrame == [none |-> TRUE, rows |-> <<>>]
Frame(rows) == [none |-> FALSE, rows |-> rows]

\* lines 183-191 on one row
CoerceRow(row, cols) ==
  [block |-> IF "block" \in cols THEN StrStrip(row.block) ELSE row.block,
   street_name |-> IF "street_name" \in cols THEN StrStrip(row.street_name)
                   ELSE row.street_name,
   lat |-> IF "lat" \in cols THEN to_numeric(row.lat) ELSE NaN,
   lon |-> IF "lon" \in cols THEN to_numeric(row.lon) ELSE NaN]

\* a dropna on lat alone
DropNaLatOnly(row, cols) == "lat" \in cols /\ row.lat.nan

\* df.dropna(subset=[the coordinate columns the file has]) (line 193)
DropNaRow(row, cols) ==
  \/ "lat" \in cols /\ row.lat.nan
  \/ "lon" \in cols /\ row.lon.nan

RECURSIVE KeepRows(_, _)
KeepRows(rows, cols) ==
  IF rows = <<>> THEN <<>>
  ELSE LET row == CoerceRow(Head(rows), cols)
       IN  IF DropNaRow(row, cols) THEN KeepRows(Tail(rows), cols)
           ELSE <<row>> \o KeepRows(Tail(rows), cols)

\* lines 156-194; no statement outside the two try blocks can raise
_load_optional_csv(file, required_cols) ==
  IF file.kind = "absent" THEN NoFrame
  ELSE IF file.kind = "zero_bytes" THEN NoFrame
  ELSE IF file.kind = "unparseable" THEN NoFrame
  ELSE IF \E c \in required_cols : c \notin file.cols THEN NoFrame
  ELSE LET rows == KeepRows(file.rows, file.cols)
       IN  IF rows = <<>> THEN NoFrame ELSE Frame(rows)

NotLoaded == [called |-> FALSE, none |-> TRUE, rows |-> <<>>]

LoadOptionalCsv ==
  /\ ~load_result.called
  /\ LET df == _load_optional_csv(load_file, load_required)
     IN  load_result' = [called |-> TRUE, none |-> df.none, rows |-> df.rows]
  /\ UNCHANGED <<load_file, load_required>>
  /\ UNCHANGED <<ingestVars, geoVars, mainVars, nearVars, restVars>>

LoadAtRest ==
  /\ load_file = AbsentCsv
  /\ load_required = RefCols
  /\ load_result = NotLoaded

\* ------------------------------------------------------- features.main
MainAtRest ==
  /\ feat_pc = "idle"
  /\ hdb_file = [found |-> FALSE, has_town |-> FALSE, rows |-> <<>>]
  /\ geo_file = AbsentCsv
  /\ mrt_file = AbsentCsv
  /\ schools_file = AbsentCsv
  /\ hdb = <<>>
  /\ geo_df = NoFrame
  /\ features_out = [exists |-> FALSE, rows |-> <<>>]


\* features.TOWN_CENTROIDS, in 1e-4 degrees
features_TOWN_CENTROIDS ==
  [t \in {"ANG MO KIO", "BEDOK", "BISHAN", "BUKIT BATOK", "BUKIT MERAH",
          "BUKIT PANJANG", "BUKIT TIMAH", "CENTRAL AREA", "CHOA CHU KANG",
          "CLEMENTI", "GEYLANG", "HOUGANG", "JURONG EAST", "JURONG WEST",
          "KALLANG/WHAMPOA", "MARINE PARADE", "PASIR RIS", "PUNGGOL",
          "QUEENSTOWN", "SEMBAWANG", "SENGKANG", "SERANGOON", "TAMPINES",
          "TOA PAYOH"} |->
    CASE t = "ANG MO KIO" -> <<13691, 1038454>>
      [] t = "BEDOK" -> <<13236, 1039273>>
      [] t = "BISHAN" -> <<13509, 1038485>>
      [] t = "BUKIT BATOK" -> <<13496, 1037496>>
      [] t = "BUKIT MERAH" -> <<12826, 1038179>>
      [] t = "BUKIT PANJANG" -> <<13786, 1037639>>
      [] t = "BUKIT TIMAH" -> <<13294, 1038021>>
      [] t = "CENTRAL AREA" -> <<12920, 1038545>>
      [] t = "CHOA CHU KANG" -> <<13854, 1037443>>
      [] t = "CLEMENTI" -> <<13151, 1037643>>
      [] t = "GEYLANG" -> <<13181, 1038839>>
      [] t = "HOUGANG" -> <<13612, 1038930>>
      [] t = "JURONG EAST" -> <<13333, 1037430>>
      [] t = "JURONG WEST" -> <<13496, 1037080>>
      [] t = "KALLANG/WHAMPOA" -> <<13133, 1038641>>
      [] t = "MARINE PARADE" -> <<13030, 1039010>>
      [] t = "PASIR RIS" -> <<13730, 1039490>>
      [] t = "PUNGGOL" -> <<14043, 1039020>>
      [] t = "QUEENSTOWN" -> <<12941, 1037851>>
      [] t = "SEMBAWANG" -> <<14491, 1038201>>
      [] t = "SENGKANG" -> <<13911, 1038950>>
      [] t = "SERANGOON" -> <<13524, 1038677>>
      [] t = "TAMPINES" -> <<13536, 1039455>>
      [] t = "TOA PAYOH" -> <<13347, 1038530>>]

\* The towns of the HDB table as written in its CSV: a town of the
\* centroid table in lower case and padded, and a town it does not hold.
LowerPaddedTown == "bishan "
UnknownTown == "ATLANTIS"
\* a str.upper that leaves lower case as it is
UpperKeepsCase(text) == text
\* .str.upper() (line 260)
Upper(text) == IF text = "bishan" THEN "BISHAN" ELSE text

\* The coordinate a row of the HDB CSV may bring along: none (also when
\* the file has no lat and lon columns, lines 232-233), both, lat alone.
PriorCoords == {<<NaN, NaN>>, <<Num(13000), Num(1038000)>>, <<Num(13000), NaN>>}

HdbFileRow(b, t, c) ==
  [block |-> b, street_name |-> StreetText, town |-> t, lat |-> c[1], lon |-> c[2],
   dist_to_mrt_m |-> NaN, dist_to_school_m |-> NaN]
HdbFileRows ==
  {HdbFileRow(b, t, c) : b \in {PaddedBlockText, OtherBlockText},
                         t \in {LowerPaddedTown, UnknownTown}, c \in PriorCoords}

\* _find_hdb_csv (lines 19-49): no CSV with block and street_name, or one,
\* with or without a town column
NoHdbCsv == [found |-> FALSE, has_town |-> FALSE, rows |-> <<>>]
HdbCsvs ==
  {NoHdbCsv} \cup
  {[found |-> TRUE, has_town |-> ht, rows |-> rows] :
     ht \in BOOLEAN, rows \in SeqUpTo(HdbFileRows, MaxRecords)}

\* the states of the optional inputs: absent, empty, malformed, without a
\* usable row, valid
GeoRow(b) == CsvRow(b, LatText, LonText)
GeoInputs ==
  {AbsentCsv, ZeroByteCsv, UnparseableCsv,
   CsvTable(RefCols, <<GeoRow(BlockText)>>),
   CsvTable(GeoCols, <<CsvRow(BlockText, JunkCell, LonText)>>),
   CsvTable(GeoCols, <<GeoRow(BlockText)>>)}
RefInputs ==
  {AbsentCsv, UnparseableCsv, CsvTable(RefCols, <<CsvRow(EmptyCell, LatText, LonText)>>)}

\* lines 218-233: read, _norm, the lat and lon columns, and the distance
\* columns of lines 273-276 (NaN where the file has none, else as read)
HdbFrameRow(row) ==
  [block |-> StrStrip(row.block), street_name |-> StrStrip(row.street_name),
   town |-> StrStrip(row.town), lat |-> row.lat, lon |-> row.lon,
   dist_to_mrt_m |-> row.dist_to_mrt_m, dist_to_school_m |-> row.dist_to_school_m]

\* line 257
Masked(rec) == rec.lat.nan \/ rec.lon.nan

\* lines 260-262 on one masked record
CentroidFill(rec) ==
  LET t == Upper(rec.town)
  IN  IF t \in DOMAIN features_TOWN_CENTROIDS
      THEN [rec EXCEPT !.lat = Num(features_TOWN_CENTROIDS[t][1]),
                       !.lon = Num(features_TOWN_CENTROIDS[t][2])]
      ELSE [rec EXCEPT !.lat = NaN, !.lon = NaN]

\* a distance that is never 0
HaversineOffByOne(lat1, lon1, lat2, lon2) ==
  (lat2 - lat1) * (lat2 - lat1) + (lon2 - lon1) * (lon2 - lon1) + 1

\* _haversine_m (lines 125-134), as the square of the distance in units of
\* 1e-4 degree of arc: 0 exactly for equal points, and ordered as the
\* great-circle distance is over the extent of Singapore
_haversine_m(lat1, lon1, lat2, lon2) ==
  (lat2 - lat1) * (lat2 - lat1) + (lon2 - lon1) * (lon2 - lon1)

\* the greatest element
SetMax(S) == CHOOSE x \in S : \A y \in S : x >= y
SetMin(S) == CHOOSE x \in S : \A y \in S : x <= y

\* _haversine_m on array elements: NaN in any operand gives NaN
HaversineOrNaN(p, q) ==
  IF p.lat.nan \/ p.lon.nan \/ q.lat.nan \/ q.lon.nan THEN NaN
  ELSE Num(_haversine_m(p.lat.v, p.lon.v, q.lat.v, q.lon.v))

\* a minimum that any NaN makes NaN
MinPropagatingNaN(dists) ==
  IF \E j \in DOMAIN dists : dists[j].nan THEN NaN
  ELSE Num(SetMin({dists[j].v : j \in DOMAIN dists}))

\* np.nanmin over one row of dists (line 153): the least of the numbers,
\* NaN (and a warning) when the row holds none
nanmin(dists) ==
  LET present == {dists[j].v : j \in {k \in DOMAIN dists : ~dists[k].nan}}
  IN  IF present = {} THEN NaN ELSE Num(SetMin(present))

\* no result at all
NoResult(n) == <<>>
\* np.full(n, np.nan) (lines 139, 146)
AllNaN(n) == [i \in 1..n |-> NaN]

\* a loop that leaves one record out between batches
NextStartSkipsOne(start, batch) == start + batch + 1
\* range(0, n, batch) (line 148): the start after `start`
NextStart(start, batch) == start + batch
\* line 149
BatchStop(start, batch, n) == IF start + batch < n THEN start + batch ELSE n

\* lines 148-153 from the batch at `start` (counted from 0) on
RECURSIVE BatchLoop(_, _, _, _, _)
BatchLoop(points, ref_rows, batch, start, out) ==
  IF start >= Len(points) THEN out
  ELSE LET stop == BatchStop(start, batch, Len(points))
           filled ==
             [i \in DOMAIN out |->
                IF start < i /\ i <= stop
                THEN nanmin([j \in DOMAIN ref_rows |->
                               HaversineOrNaN(points[i], ref_rows[j])])
                ELSE out[i]]
       IN  BatchLoop(points, ref_rows, batch, NextStart(start, batch), filled)

\* the default of the parameter `batch` (line 136)
DefaultBatch == 10000

\* _nearest_distance_m (lines 136-154)
_nearest_distance_m(points, ref_df, batch) ==
  IF ref_df.none \/ ref_df.rows = <<>> THEN AllNaN(Len(points))
  ELSE BatchLoop(points, ref_df.rows, batch, 0, AllNaN(Len(points)))

\* The points and reference points of a call: BISHAN's centroid, the
\* reference point 45 m from it, one further north, and rows without a
\* coordinate.
Point(la, lo) == [lat |-> la, lon |-> lo]
NearPoints == {Point(Num(13509), Num(1038485)), Point(Num(13513), Num(1038486)),
               Point(NaN, NaN)}
NearRefs == {Point(Num(13513), Num(1038486)), Point(Num(13600), Num(1038486)),
             Point(NaN, Num(1038486))}
NearRefTables == {NoFrame} \cup {Frame(rows) : rows \in SeqUpTo(NearRefs, MaxRefs)}
BatchSizes == 1..(MaxPoints + 1)

NotCalled == [called |-> FALSE, vals |-> <<>>]
NoEarlierCall == [kind |-> "none", vals |-> <<>>]

NearestCall ==
  /\ ~nd_out.called
  /\ nd_out' = [called |-> TRUE,
                vals |-> _nearest_distance_m(nd_points, nd_ref, nd_batch)]
  /\ UNCHANGED <<nd_points, nd_ref, nd_batch, nd_prev>>
  /\ UNCHANGED <<ingestVars, geoVars, loadVars, mainVars, restVars>>

\* a second call on the same tables with another batch size
NearestOtherBatch ==
  /\ nd_out.called
  /\ nd_prev.kind = "none"
  /\ \E b \in BatchSizes \ {nd_batch} :
       /\ nd_batch' = b
       /\ nd_out' = [called |-> TRUE,
                     vals |-> _nearest_distance_m(nd_points, nd_ref, b)]
  /\ nd_prev' = [kind |-> "batch", vals |-> nd_out.vals]
  /\ UNCHANGED <<nd_points, nd_ref>>
  /\ UNCHANGED <<ingestVars, geoVars, loadVars, mainVars, restVars>>

\* a second call after a reference point was added to the table
NearestMoreRefs ==
  /\ nd_out.called
  /\ nd_prev.kind = "none"
  /\ \E q \in NearRefs :
       LET more == Frame(Append(nd_ref.rows, q))
       IN  /\ nd_ref' = more
           /\ nd_out' = [called |-> TRUE,
                         vals |-> _nearest_distance_m(nd_points, more, nd_batch)]
  /\ nd_prev' = [kind |-> "ref", vals |-> nd_out.vals]
  /\ UNCHANGED <<nd_points, nd_batch>>
  /\ UNCHANGED <<ingestVars, geoVars, loadVars, mainVars, restVars>>

NearAtRest ==
  /\ nd_points = <<>>
  /\ nd_ref = NoFrame
  /\ nd_batch = DefaultBatch
  /\ nd_out = NotCalled
  /\ nd_prev = NoEarlierCall

\* line 278
HasCoords(rec) == ~rec.lat.nan /\ ~rec.lon.nan

\* hdb.loc[ok_mask, col] = _nearest_distance_m(hdb.loc[ok_mask], ref_df)
\* (lines 279-282): the k-th distance goes to the k-th record of the mask
MaskedDistances(frame, ref_df) ==
  LET dists == _nearest_distance_m(SelectSeq(frame, HasCoords), ref_df, DefaultBatch)
      rank(i) == Cardinality({j \in 1..i : HasCoords(frame[j])})
  IN  [i \in DOMAIN frame |-> IF HasCoords(frame[i]) THEN dists[rank(i)] ELSE NaN]

\* distances that are 0 for a record without a coordinate
WithDistancesZeroFill(frame, mrt_df, schools_df) ==
  [i \in DOMAIN frame |->
     [frame[i] EXCEPT
        !.dist_to_mrt_m =
           IF HasCoords(frame[i]) THEN MaskedDistances(frame, mrt_df)[i] ELSE Num(0),
        !.dist_to_school_m =
           IF HasCoords(frame[i]) THEN MaskedDistances(frame, schools_df)[i] ELSE Num(0)]]

\* lines 278-282
WithDistances(frame, mrt_df, schools_df) ==
  LET any_ok == \E i \in DOMAIN frame : HasCoords(frame[i])
      mrt == MaskedDistances(frame, mrt_df)
      sch == MaskedDistances(frame, schools_df)
  IN  [i \in DOMAIN frame |->
         [frame[i] EXCEPT
            !.dist_to_mrt_m =
               IF ~mrt_df.none /\ any_ok /\ HasCoords(frame[i]) THEN mrt[i] ELSE @,
            !.dist_to_school_m =
               IF ~schools_df.none /\ any_ok /\ HasCoords(frame[i]) THEN sch[i] ELSE @]]

\* to_csv on a number (line 297): NaN is an empty cell, a float its digits
CsvCell(x) == IF x.nan THEN EmptyCell ELSE ToString(x.v)
\* an output that leaves the longitude out
OutRowDropsLongitude(rec) ==
  [block |-> rec.block, street_name |-> rec.street_name, town |-> rec.town,
   lat |-> CsvCell(rec.lat), lon |-> EmptyCell,
   dist_to_mrt_m |-> CsvCell(rec.dist_to_mrt_m),
   dist_to_school_m |-> CsvCell(rec.dist_to_school_m)]
OutRow(rec) ==
  [block |-> rec.block, street_name |-> rec.street_name, town |-> rec.town,
   lat |-> CsvCell(rec.lat), lon |-> CsvCell(rec.lon),
   dist_to_mrt_m |-> CsvCell(rec.dist_to_mrt_m),
   dist_to_school_m |-> CsvCell(rec.dist_to_school_m)]

\* the numbers a feature table of these inputs can hold: the coordinates
\* of HDB rows and of BISHAN's centroid, and their distances to the
\* reference point
NumbersWritten ==
  {13000, 1038000, 13509, 1038485} \cup
  {_haversine_m(p[1], p[2], 13513, 1038486) :
     p \in {<<13000, 1038000>>, <<13509, 1038485>>}}

\* pd.read_csv on a cell of a numeric column (line 218): an empty cell is
\* NaN, digits are the number they write
ReadCell(text) ==
  IF text = EmptyCell THEN NaN
  ELSE Num(CHOOSE n \in NumbersWritten : ToString(n) = text)

\* features_real.csv taken as the primary table of a further run
ReadBack(out, has_town) ==
  [found |-> TRUE, has_town |-> has_town,
   rows |-> [i \in DOMAIN out.rows |->
               [block |-> out.rows[i].block, street_name |-> out.rows[i].street_name,
                town |-> out.rows[i].town,
                lat |-> ReadCell(out.rows[i].lat), lon |-> ReadCell(out.rows[i].lon),
                dist_to_mrt_m |-> ReadCell(out.rows[i].dist_to_mrt_m),
                dist_to_school_m |-> ReadCell(out.rows[i].dist_to_school_m)]]]

\* the feature table is placed as the primary table and main is run again
\* with the same optional inputs (a table that reads back as the table
\* just processed would only repeat the run)
FeatRerun ==
  /\ feat_pc = "done"
  /\ ReadBack(features_out, hdb_file.has_town) # hdb_file
  /\ hdb_file' = ReadBack(features_out, hdb_file.has_town)
  /\ feat_pc' = "idle"
  /\ UNCHANGED <<geo_file, mrt_file, schools_file, hdb, geo_df, features_out>>
  /\ UNCHANGED <<ingestVars, geoVars, loadVars, nearVars, restVars>>

\* lines 207-233
FeatStart ==
  /\ feat_pc = "idle"
  /\ hdb_file.found
  /\ hdb' = [i \in DOMAIN hdb_file.rows |-> HdbFrameRow(hdb_file.rows[i])]
  /\ feat_pc' = "join"
  /\ UNCHANGED <<hdb_file, geo_file, mrt_file, schools_file, geo_df, features_out>>
  /\ UNCHANGED <<ingestVars, geoVars, loadVars, nearVars, restVars>>

\* line 207: _find_hdb_csv raises FileNotFoundError
FeatStartRaises ==
  /\ feat_pc = "idle"
  /\ ~hdb_file.found
  /\ feat_pc' = "raised"
  /\ UNCHANGED <<hdb_file, geo_file, mrt_file, schools_file, hdb, geo_df, features_out>>
  /\ UNCHANGED <<ingestVars, geoVars, loadVars, nearVars, restVars>>

\* lines 235-237 without a usable geocode table: the join is passed over
FeatJoinSkipped ==
  /\ feat_pc = "join"
  /\ geo_df' = _load_optional_csv(geo_file, GeoCols)
  /\ geo_df'.none
  /\ feat_pc' = "centroid"
  /\ UNCHANGED <<hdb_file, geo_file, mrt_file, schools_file, hdb, features_out>>
  /\ UNCHANGED <<ingestVars, geoVars, loadVars, nearVars, restVars>>

\* lines 235-247 with a geocode table: hdb has the columns lat and lon
\* (lines 232-233) and so has geo_df; with suffixes=("", "") pandas' merge
\* raises ValueError("columns overlap but no suffix specified") for any
\* rows, and lines 248-254 are never reached
FeatJoinRaises ==
  /\ feat_pc = "join"
  /\ geo_df' = _load_optional_csv(geo_file, GeoCols)
  /\ ~geo_df'.none
  /\ feat_pc' = "raised"
  /\ UNCHANGED <<hdb_file, geo_file, mrt_file, schools_file, hdb, features_out>>
  /\ UNCHANGED <<ingestVars, geoVars, loadVars, nearVars, restVars>>

\* lines 256-267
FeatCentroid ==
  /\ feat_pc = "centroid"
  /\ hdb' = IF hdb_file.has_town /\ \E i \in DOMAIN hdb : Masked(hdb[i])
            THEN [i \in DOMAIN hdb |->
                    IF Masked(hdb[i]) THEN CentroidFill(hdb[i]) ELSE hdb[i]]
            ELSE hdb
  /\ feat_pc' = "distances"
  /\ UNCHANGED <<hdb_file, geo_file, mrt_file, schools_file, geo_df, features_out>>
  /\ UNCHANGED <<ingestVars, geoVars, loadVars, nearVars, restVars>>

\* lines 269-282
FeatDistances ==
  /\ feat_pc = "distances"
  /\ LET mrt_df == _load_optional_csv(mrt_file, RefCols)
         schools_df == _load_optional_csv(schools_file, RefCols)
     IN  hdb' = WithDistances(hdb, mrt_df, schools_df)
  /\ feat_pc' = "write"
  /\ UNCHANGED <<hdb_file, geo_file, mrt_file, schools_file, geo_df, features_out>>
  /\ UNCHANGED <<ingestVars, geoVars, loadVars, nearVars, restVars>>

\* lines 284-297
FeatWrite ==
  /\ feat_pc = "write"
  /\ features_out' = [exists |-> TRUE, rows |-> [i \in DOMAIN hdb |-> OutRow(hdb[i])]]
  /\ feat_pc' = "done"
  /\ UNCHANGED <<hdb_file, geo_file, mrt_file, schools_file, hdb, geo_df>>
  /\ UNCHANGED <<ingestVars, geoVars, loadVars, nearVars, restVars>>

\* ------------------------------------------------ fetch_hdb_resale_real
\* The stored HDB table, reduced to two columns; a cell holds a block
\* number or a text pandas reads as a missing value.
HdbCols == {"block", "lease_commence_year"}
HdbRow(b) == [block |-> b, lease_commence_year |-> "1990"]
HdbRows == {HdbRow(b) : b \in {BlockText, NaKey}}

\* the files that may sit at out_path or at local_fallback
HdbRawFiles ==
  {AbsentCsv, ZeroByteCsv, UnparseableCsv} \cup
  {CsvTable(HdbCols, rows) : rows \in SeqUpTo(HdbRows, MaxRecords)}

\* How _ckan_fetch_all ends (lines 15-63): a request raised, no record
\* came (RuntimeError, line 61), or the concatenated pages.
CkanRecord(b) == [_id |-> 1, block |-> b, lease_commence_date |-> "1990"]
CkanError == [kind |-> "error", recs |-> <<>>]
CkanNoRecords == [kind |-> "no_records", recs |-> <<>>]
CkanFrames ==
  {[kind |-> "frame", recs |-> recs] :
     recs \in SeqUpTo({CkanRecord(b) : b \in {BlockText, NaKey}}, MaxRecords) \ {<<>>}}
CkanFailures == {CkanError, CkanNoRecords}

\* lines 81-105: rename, then keep the expected columns
Standardize(rec) ==
  [block |-> rec.block, lease_commence_year |-> rec.lease_commence_date]

\* lines 120 and 122: a cell as pd.read_csv reads it and to_csv writes it
\* back; a missing value is written as the empty string
RewriteCell(text) == IF text \in NaTokens THEN EmptyCell ELSE text
RewriteRow(row) ==
  [block |-> RewriteCell(row.block),
   lease_commence_year |-> RewriteCell(row.lease_commence_year)]

ExistsAndNotEmpty(file) == file.kind \notin {"absent", "zero_bytes"}

\* Path(local_fallback).exists() (line 114)
FallbackExists(file) == file.kind # "absent"

\* pd.read_csv(local_fallback) (line 120) raises EmptyDataError on a file
\* without columns and ParserError on one it cannot tokenize
ReadCsvRaises(file) == file.kind \in {"zero_bytes", "unparseable"}

\* lines 75-76
LocalFallback == IF hdbr_same THEN hdbr_out ELSE hdbr_fallback

HdbrAtRest ==
  /\ hdbr_pc = "idle"
  /\ hdbr_result = "none"
  /\ hdbr_out = AbsentCsv
  /\ hdbr_same = TRUE
  /\ hdbr_fallback = AbsentCsv
  /\ hdbr_seen = [ckan |-> "none", fallback |-> AbsentCsv]

\* lines 78-110: the CKAN fetch succeeded
HdbFetchCkan ==
  /\ hdbr_pc = "idle"
  /\ \E ckan \in CkanFrames :
       /\ hdbr_out' = CsvTable(HdbCols,
                        [i \in DOMAIN ckan.recs |-> Standardize(ckan.recs[i])])
       /\ hdbr_seen' = [ckan |-> ckan.kind, fallback |-> LocalFallback]
  /\ hdbr_result' = "returned"
  /\ hdbr_pc' = "done"
  /\ UNCHANGED <<hdbr_same, hdbr_fallback, pollVars, moreVars>>
  /\ UNCHANGED <<ingestVars, geoVars, featVars>>

\* lines 112-124: the CKAN fetch raised and the fallback file is read
HdbFetchFallback ==
  /\ hdbr_pc = "idle"
  /\ FallbackExists(LocalFallback)
  /\ ~ReadCsvRaises(LocalFallback)
  /\ \E ckan \in CkanFailures :
       hdbr_seen' = [ckan |-> ckan.kind, fallback |-> LocalFallback]
  /\ hdbr_out' = CsvTable(LocalFallback.cols,
                   [i \in DOMAIN LocalFallback.rows |-> RewriteRow(LocalFallback.rows[i])])
  /\ hdbr_result' = "returned"
  /\ hdbr_pc' = "done"
  /\ UNCHANGED <<hdbr_same, hdbr_fallback, pollVars, moreVars>>
  /\ UNCHANGED <<ingestVars, geoVars, featVars>>

\* lines 112-120: the CKAN fetch raised, and the fallback file is missing
\* (FileNotFoundError, line 115) or pd.read_csv raises on it (line 120)
HdbFetchRaises ==
  /\ hdbr_pc = "idle"
  /\ \/ ~FallbackExists(LocalFallback)
     \/ ReadCsvRaises(LocalFallback)
  /\ \E ckan \in CkanFailures :
       hdbr_seen' = [ckan |-> ckan.kind, fallback |-> LocalFallback]
  /\ hdbr_result' = IF ~FallbackExists(LocalFallback)
                    THEN "FileNotFoundError" ELSE "ReadError"
  /\ hdbr_pc' = "done"
  /\ UNCHANGED <<hdbr_out, hdbr_same, hdbr_fallback, pollVars, moreVars>>
  /\ UNCHANGED <<ingestVars, geoVars, featVars>>

\* --------------------------------------------------- _parse_description
\* A description is a sequence of tokens, each a piece of text the two
\* patterns treat as a unit: the header cells, <td>, </td>, a blank, a
\* backslash, the letter s, and the texts of the value cells.
ThStation == "<th>STATION_NA</th>"
ThExit == "<th>EXIT_CODE</th>"
Td == "<td>"
EndTd == "</td>"
Blank == " "
Backslash == "\\"
LetterS == "s"
StationText == "BISHAN"
ExitText == "A"

Run(tok, n) == [i \in 1..n |-> tok]

\* what may stand between a header cell and its value cell: nothing,
\* blanks, or a backslash and a run of the letter s
Separators ==
  {Run(Blank, n) : n \in 0..MaxPad} \cup
  {<<Backslash>> \o Run(LetterS, n) : n \in 0..MaxPad}

\* a header cell with its value cell, or no such cell in the description
NoCell == [present |-> FALSE, sep |-> <<>>, value |-> <<>>]
Cells(text) ==
  {NoCell} \cup
  {[present |-> TRUE, sep |-> sep, value |-> v] :
     sep \in Separators, v \in {<<text>>, <<Blank, text, Blank>>, <<>>}}

CellTokens(header, cell) ==
  IF cell.present
  THEN <<header>> \o cell.sep \o <<Td>> \o cell.value \o <<EndTd>>
  ELSE <<>>

\* the text of a description
DescTokens(desc) ==
  IF desc.exit_first
  THEN CellTokens(ThExit, desc.exit_code) \o CellTokens(ThStation, desc.station)
  ELSE CellTokens(ThStation, desc.station) \o CellTokens(ThExit, desc.exit_code)

\* the arguments: a string, or a value that is not a string (None, a number)
NotAString ==
  [isstr |-> FALSE, station |-> NoCell, exit_code |-> NoCell, exit_first |-> FALSE]
Descriptions ==
  {NotAString} \cup
  {[isstr |-> TRUE, station |-> st, exit_code |-> ex, exit_first |-> b] :
     st \in Cells(StationText), ex \in Cells(ExitText), b \in BOOLEAN}

Absent == [found |-> FALSE, text |-> <<>>]

RECURSIVE SkipRun(_, _, _)
SkipRun(toks, i, tok) ==
  IF i <= Len(toks) /\ toks[i] = tok THEN SkipRun(toks, i + 1, tok) ELSE i

RECURSIVE FirstAt(_, _, _)
FirstAt(toks, i, tok) ==
  IF i > Len(toks) THEN 0
  ELSE IF toks[i] = tok THEN i ELSE FirstAt(toks, i + 1, tok)

\* The pattern of lines 46-47 tried at position i. The pattern is the raw
\* string r"<th>..</th>\\s*<td>(.*?)</td>": in a raw string \\ stays two
\* characters, which the regular expression reads as one literal
\* backslash, and s* is then any run of the letter s.
MatchAt(toks, i, header) ==
  IF toks[i] # header \/ i + 1 > Len(toks) \/ toks[i + 1] # Backslash
  THEN Absent
  ELSE LET j == SkipRun(toks, i + 2, LetterS)
       IN  IF j > Len(toks) \/ toks[j] # Td
           THEN Absent
           ELSE LET k == FirstAt(toks, j + 1, EndTd)
                IN  IF k = 0 THEN Absent
                    ELSE [found |-> TRUE, text |-> SubSeq(toks, j + 1, k - 1)]

\* re.search: the leftmost position where the pattern matches
RECURSIVE ReSearch(_, _, _)
ReSearch(toks, i, header) ==
  IF i > Len(toks) THEN Absent
  ELSE IF MatchAt(toks, i, header).found THEN MatchAt(toks, i, header)
  ELSE ReSearch(toks, i + 1, header)

\* str.strip() on a token sequence
RECURSIVE TokStrip(_)
TokStrip(text) ==
  IF text = <<>> THEN text
  ELSE IF Head(text) = Blank THEN TokStrip(Tail(text))
  ELSE IF text[Len(text)] = Blank THEN TokStrip(SubSeq(text, 1, Len(text) - 1))
  ELSE text

\* lines 40-50
_parse_description(desc) ==
  IF ~desc.isstr
  THEN [station |-> Absent, exit_code |-> Absent]
  ELSE LET st == ReSearch(DescTokens(desc), 1, ThStation)
           ex == ReSearch(DescTokens(desc), 1, ThExit)
       IN  [station |-> IF st.found THEN [st EXCEPT !.text = TokStrip(st.text)]
                        ELSE Absent,
            exit_code |-> IF ex.found THEN [ex EXCEPT !.text = TokStrip(ex.text)]
                          ELSE Absent]

NotParsed == [called |-> FALSE, station |-> Absent, exit_code |-> Absent]

ParseAtRest ==
  /\ pd_desc = NotAString
  /\ pd_out = NotParsed

ParseDescription ==
  /\ ~pd_out.called
  /\ pd_out' = [called |-> TRUE,
                station |-> _parse_description(pd_desc).station,
                exit_code |-> _parse_description(pd_desc).exit_code]
  /\ UNCHANGED pd_desc
  /\ UNCHANGED <<ingestVars, geoVars, featVars, hdbrVars, pollVars, ckanVars>>

\* ------------------------------------------------------ _ckan_fetch_all
\* The function is called with any limit_start and min_limit (its defaults
\* are 32000 and 1000, line 18-19) on a resource of any size. The server
\* answers a request with HTTP 422, with another error, or with a page: a
\* non-empty run of at most `limit` of the records remaining at the offset,
\* and an empty page only when none remain.
Max(a, b) == IF a >= b THEN a ELSE b
Min(a, b) == IF a <= b THEN a ELSE b

BackoffNoFloor(limit, min_limit) == limit \div 2

\* line 39
Backoff(limit, min_limit) == Max(min_limit, limit \div 2)

\* records offset+1 .. offset+got, as DataFrame.from_records appends them
PageRecords(offset, got) == [i \in 1..got |-> offset + i]

CkanAtRest ==
  /\ ck_pc = "idle"
  /\ ck_limit_start = 1
  /\ ck_min_limit = 1
  /\ ck_records = 0
  /\ ck_limit = 1
  /\ ck_offset = 0
  /\ ck_frames = <<>>
  /\ ck_backoffs = 0
  /\ ck_last = "none"

MoreAtRest == CkanAtRest /\ ParseAtRest

\* lines 27-31
CkanStart ==
  /\ ck_pc = "idle"
  /\ ck_limit' = ck_limit_start
  /\ ck_offset' = 0
  /\ ck_frames' = <<>>
  /\ ck_backoffs' = 0
  /\ ck_pc' = "loop"
  /\ UNCHANGED <<ck_limit_start, ck_min_limit, ck_records, ck_last>>
  /\ UNCHANGED <<ingestVars, geoVars, featVars, hdbrVars, pollVars, parseVars>>

\* lines 35-40: HTTP 422 above min_limit, the same offset is asked again
CkanBackoff ==
  /\ ck_pc = "loop"
  /\ ck_limit > ck_min_limit
  /\ ck_limit' = Backoff(ck_limit, ck_min_limit)
  /\ ck_backoffs' = ck_backoffs + 1
  /\ ck_last' = "422"
  /\ UNCHANGED <<ck_pc, ck_limit_start, ck_min_limit, ck_records, ck_offset, ck_frames>>
  /\ UNCHANGED <<ingestVars, geoVars, featVars, hdbrVars, pollVars, parseVars>>

\* lines 35-43: requests.get, raise_for_status or r.json() raises; a 422
\* is raised by raise_for_status when limit is not above min_limit
CkanRaises ==
  /\ ck_pc = "loop"
  /\ \E status \in {"422", "error"} :
       /\ status = "422" => ~(ck_limit > ck_min_limit)
       /\ ck_last' = status
  /\ ck_pc' = "raised"
  /\ UNCHANGED <<ck_limit_start, ck_min_limit, ck_records, ck_limit, ck_offset,
                 ck_frames, ck_backoffs>>
  /\ UNCHANGED <<ingestVars, geoVars, featVars, hdbrVars, pollVars, parseVars>>

\* lines 43-58: a page with records; a page shorter than limit ends the loop
CkanPage ==
  /\ ck_pc = "loop"
  /\ ck_offset < ck_records
  /\ \E got \in 1..Min(ck_limit, ck_records - ck_offset) :
       /\ ck_frames' = ck_frames \o PageRecords(ck_offset, got)
       /\ ck_offset' = ck_offset + got
       /\ ck_pc' = IF got < ck_limit THEN "done" ELSE "loop"
  /\ ck_backoffs' = 0
  /\ ck_last' = "page"
  /\ UNCHANGED <<ck_limit_start, ck_min_limit, ck_records, ck_limit>>
  /\ UNCHANGED <<ingestVars, geoVars, featVars, hdbrVars, pollVars, parseVars>>

\* lines 46-47 and 60-63: an empty page ends the loop; without any frame
\* RuntimeError is raised
CkanEmptyPage ==
  /\ ck_pc = "loop"
  /\ ck_offset >= ck_records
  /\ ck_pc' = IF ck_frames = <<>> THEN "raised" ELSE "done"
  /\ ck_backoffs' = 0
  /\ ck_last' = "empty"
  /\ UNCHANGED <<ck_limit_start, ck_min_limit, ck_records, ck_limit, ck_offset,
                 ck_frames>>
  /\ UNCHANGED <<ingestVars, geoVars, featVars, hdbrVars, pollVars, parseVars>>

RestAtRest == HdbrAtRest /\ PollAtRest /\ MoreAtRest

FeatAtRest == LoadAtRest /\ MainAtRest /\ NearAtRest

\* _nearest_distance_m, called on any points, reference table and batch
NextNearest ==
  \/ NearestCall
  \/ NearestOtherBatch
  \/ NearestMoreRefs

InitNearest ==
  /\ RestAtRest
  /\ IngestAtRest
  /\ local_gj = AbsentFile
  /\ sch_out = NoSchoolsCsv
  /\ GeoAtRest
  /\ LoadAtRest
  /\ MainAtRest
  /\ nd_points \in SeqUpTo(NearPoints, MaxPoints)
  /\ nd_ref \in NearRefTables
  /\ nd_batch \in BatchSizes
  /\ nd_out = NotCalled
  /\ nd_prev = NoEarlierCall

SpecNearest == InitNearest /\ [][NextNearest]_vars

NextFeatures ==
  \/ FeatStart
  \/ FeatStartRaises
  \/ FeatJoinSkipped
  \/ FeatJoinRaises
  \/ FeatCentroid
  \/ FeatDistances
  \/ FeatWrite
  \/ FeatRerun

\* features.main, run on any primary table and any optional inputs
InitFeatures ==
  /\ RestAtRest
  /\ IngestAtRest
  /\ local_gj = AbsentFile
  /\ sch_out = NoSchoolsCsv
  /\ GeoAtRest
  /\ LoadAtRest
  /\ NearAtRest
  /\ feat_pc = "idle"
  /\ hdb_file \in HdbCsvs
  /\ geo_file \in GeoInputs
  /\ mrt_file \in RefInputs
  /\ schools_file \in RefInputs
  /\ hdb = <<>>
  /\ geo_df = NoFrame
  /\ features_out = [exists |-> FALSE, rows |-> <<>>]

SpecFeatures == InitFeatures /\ [][NextFeatures]_vars

\* _load_optional_csv, called on any file with either set of required
\* columns main passes
NextLoad ==
  \/ LoadOptionalCsv

InitLoad ==
  /\ RestAtRest
  /\ IngestAtRest
  /\ local_gj = AbsentFile
  /\ sch_out = NoSchoolsCsv
  /\ GeoAtRest
  /\ MainAtRest
  /\ NearAtRest
  /\ load_file \in OptionalCsvs
  /\ load_required \in {RefCols, GeoCols}
  /\ load_result = NotLoaded

SpecLoad == InitLoad /\ [][NextLoad]_vars

\* the tiered chains, started with any files the user may have placed
InitIngest ==
  /\ RestAtRest
  /\ IngestAtRest
  /\ local_gj \in LocalFiles
  /\ sch_out \in SchoolsFiles
  /\ GeoAtRest
  /\ FeatAtRest

SpecIngest == InitIngest /\ [][NextIngest]_vars

\* the geocoder, started without a cache file
InitGeo ==
  /\ RestAtRest
  /\ IngestAtRest
  /\ local_gj = AbsentFile
  /\ sch_out = NoSchoolsCsv
  /\ GeoAtRest
  /\ FeatAtRest

SpecGeo == InitGeo /\ [][NextGeo]_vars

\* the geocoder, started on any cache file it may find
NextGeoFiles ==
  \/ GeoCall
  \/ GeoCallRaises
  \/ GeoSkip
  \/ GeoLookup
  \/ GeoWrite

InitGeoFiles ==
  /\ RestAtRest
  /\ IngestAtRest
  /\ local_gj = AbsentFile
  /\ sch_out = NoSchoolsCsv
  /\ geo_pc = "idle"
  /\ values = <<>>
  /\ idx = 1
  /\ cache = EmptyDict
  /\ new_rows = <<>>
  /\ lookups = <<>>
  /\ calls = 0
  /\ cache_file \in CacheFiles
  /\ FeatAtRest

SpecGeoFiles == InitGeoFiles /\ [][NextGeoFiles]_vars

\* fetch_hdb_resale_real, called with any file at out_path and, when
\* local_fallback names another path, any file there
NextHdb ==
  \/ HdbFetchCkan
  \/ HdbFetchFallback
  \/ HdbFetchRaises

InitHdb ==
  /\ IngestAtRest
  /\ local_gj = AbsentFile
  /\ sch_out = NoSchoolsCsv
  /\ GeoAtRest
  /\ FeatAtRest
  /\ PollAtRest
  /\ MoreAtRest
  /\ hdbr_pc = "idle"
  /\ hdbr_result = "none"
  /\ hdbr_out \in HdbRawFiles
  /\ hdbr_same \in BOOLEAN
  /\ hdbr_fallback \in (IF hdbr_same THEN {AbsentCsv} ELSE HdbRawFiles)
  /\ hdbr_seen = [ckan |-> "none", fallback |-> AbsentCsv]

SpecHdb == InitHdb /\ [][NextHdb]_vars

\* fetch_mrt_exits_real with poll_download stepped request by request
NextPoll ==
  \/ MrtStart
  \/ PollStart
  \/ PollRequest
  \/ PollSleep
  \/ PollTimeout
  \/ MrtTier1
  \/ MrtTier2
  \/ MrtTier3
  \/ MrtTier4

InitPoll ==
  /\ IngestAtRest
  /\ local_gj \in LocalFiles
  /\ sch_out = NoSchoolsCsv
  /\ GeoAtRest
  /\ FeatAtRest
  /\ HdbrAtRest
  /\ MoreAtRest
  /\ poll_pc = "idle"
  /\ poll_trace = <<>>

SpecPoll == InitPoll /\ [][NextPoll]_vars

\* _ckan_fetch_all, called with any page limits on any resource
NextCkan ==
  \/ CkanStart
  \/ CkanBackoff
  \/ CkanRaises
  \/ CkanPage
  \/ CkanEmptyPage

InitCkan ==
  /\ IngestAtRest
  /\ local_gj = AbsentFile
  /\ sch_out = NoSchoolsCsv
  /\ GeoAtRest
  /\ FeatAtRest
  /\ HdbrAtRest
  /\ PollAtRest
  /\ ParseAtRest
  /\ ck_pc = "idle"
  /\ ck_limit_start \in 1..MaxLimit
  /\ ck_min_limit \in 1..MaxLimit
  /\ ck_records \in 0..MaxResource
  /\ ck_limit = 1
  /\ ck_offset = 0
  /\ ck_frames = <<>>
  /\ ck_backoffs = 0
  /\ ck_last = "none"

SpecCkan == InitCkan /\ [][NextCkan]_vars

\* _parse_description, called on any description
NextParse ==
  \/ ParseDescription

InitParse ==
  /\ IngestAtRest
  /\ local_gj = AbsentFile
  /\ sch_out = NoSchoolsCsv
  /\ GeoAtRest
  /\ FeatAtRest
  /\ HdbrAtRest
  /\ PollAtRest
  /\ CkanAtRest
  /\ pd_desc \in Descriptions
  /\ pd_out = NotParsed

SpecParse == InitParse /\ [][NextParse]_vars

\* ------------------------------------------- claims on the tiered chains
MrtDone == fn = "mrt" /\ pc = "done"

\* C1: whenever the remote tier and every Overpass endpoint fail in a run
\* of fetch_mrt_exits_real, the run returns a transit table with at least
\* one row, whatever the state of the local artifact file.
C1_NonEmptyWhenNetworkFails ==
  ( /\ MrtDone
    /\ log[1].result = "fail"
    /\ \A i \in DOMAIN log : log[i].tier = 3 => log[i].net = "error" )
  => ( /\ result = "returned"
       /\ mrt_out.exists
       /\ Len(mrt_out.rows) >= 1 )

\* C2: in fetch_mrt_exits_real an exception raised inside a tier is caught
\* and makes only that tier fail: no attempt ends with an exception leaving
\* the function.
C2_TierExceptionsCaught ==
  fn = "mrt" => \A i \in DOMAIN log : log[i].result # "raise"

\* C3: in fetch_mrt_exits_real a tier ends the chain if and only if the
\* table it produced is non-empty after the rows lacking a latitude or a
\* longitude are dropped.
C3_SuccessIffUsableRows ==
  fn = "mrt" =>
    \A i \in DOMAIN log : (log[i].result = "ok") <=> (Len(log[i].table) >= 1)

\* C4: within one run of fetch_mrt_exits_real or fetch_schools_real the
\* tiers are attempted in the declared order: the k-th attempt is tier k,
\* every attempt before the last one failed, nothing is attempted after a
\* success, and the run stands at the tier after its last attempt.
C4_TiersInDeclaredOrder ==
  /\ \A i \in DOMAIN log :
       /\ log[i].tier = i
       /\ i < Len(log) => log[i].result = "fail"
  /\ pc \in {"tier1", "tier2", "tier3", "tier4"} =>
       /\ pc = TierPc(Len(log) + 1)
       /\ \A i \in DOMAIN log : log[i].result = "fail"
  /\ pc = "done" => log[Len(log)].result \in {"ok", "raise"}

\* a schools run that reached its fourth tier after three failed ones and
\* returned from it
C4_Witness ==
  /\ fn = "schools" /\ pc = "done"
  /\ Len(log) = 4
  /\ log[4].result = "ok"

\* C5 as claimed: after a run that persisted its table in mrt_exits.csv
\* (during a run the file holds what an earlier run wrote), a later run
\* whose remote tier fails gets that table from the local tier and goes on
\* neither to Overpass nor to the proxy tier.
C5_PersistedTableReused ==
  ( /\ fn = "mrt" /\ pc # "done"
    /\ mrt_out.exists /\ Len(mrt_out.rows) >= 1
    /\ Len(log) >= 1 /\ log[1].result = "fail" )
  => pc \notin {"tier3", "tier4"}

\* C5 amended: the local tier of fetch_mrt_exits_real reads only the
\* GeoJSON file, which no step of a run writes, and never mrt_exits.csv: the
\* run goes on to Overpass exactly when the GeoJSON file is absent, and when
\* it returns from the local tier the table is the GeoJSON file's rows.
C5_LocalTierReadsGeoJsonOnly ==
  [][ /\ pc \notin {"idle", "done"} => local_gj' = local_gj
      /\ (fn = "mrt" /\ pc = "tier2") =>
           /\ (pc' = "tier3") <=> (local_gj.kind = "absent")
           /\ result' = "returned" =>
                mrt_out' = Csv(DropNa(RowsOfFeatures(local_gj.features)))
    ]_vars

\* an earlier run persisted a non-empty table, the remote tier of this run
\* failed, the GeoJSON file is absent, and the run went on to Overpass
C5_Witness ==
  /\ fn = "mrt" /\ pc = "tier3"
  /\ mrt_out.exists /\ Len(mrt_out.rows) >= 1
  /\ Len(log) = 2 /\ log[1].result = "fail"
  /\ local_gj.kind = "absent"

\* C6: every run of fetch_mrt_exits_real ends by returning a table path,
\* after at most four attempts, the last of which succeeded.
C6_RunReturnsPath ==
  MrtDone =>
    /\ result = "returned"
    /\ Len(log) <= 4
    /\ log[Len(log)].result = "ok"
    /\ mrt_out.exists

\* C7: fetch_schools_real never returns an empty table silently: a run
\* either returns a table with at least one row or raises, and it raises
\* when all four tiers fail.
C7_NoSilentEmptyTable ==
  (fn = "schools" /\ pc = "done") =>
    /\ \/ result = "raised"
       \/ result = "returned" /\ sch_out.kind = "table" /\ Len(sch_out.rows) >= 1
    /\ (Len(log) = 4 /\ log[4].result # "ok") => result = "raised"

\* ------------------------------------------------ claims on the geocoder
\* C8: within one call of cached_geocode_many at most one external lookup
\* is issued per distinct key, whether the first lookup for it succeeded or
\* failed.
C8_OneLookupPerKey ==
  \A i, j \in DOMAIN lookups : lookups[i].key = lookups[j].key => i = j

\* C9: after any sequence of cached_geocode_many calls that starts from an
\* absent cache file, the file contains no key more than once.
C9_NoDuplicateKeyInFile ==
  \A i, j \in DOMAIN cache_file.rows :
    cache_file.rows[i].key = cache_file.rows[j].key => i = j

IsPrefix(a, b) == Len(a) <= Len(b) /\ SubSeq(b, 1, Len(a)) = a

\* C10: a row once in the cache file is never modified or removed: every
\* step leaves the file's rows as a prefix of the new file, an existing file
\* stays, and each row added is for a key resolved by a lookup of this call.
C10_CacheFileAppendOnly ==
  [][ /\ IsPrefix(cache_file.rows, cache_file'.rows)
      /\ cache_file.exists => cache_file'.exists
      /\ \A i \in (Len(cache_file.rows) + 1)..Len(cache_file'.rows) :
           \E j \in DOMAIN lookups :
             lookups[j].found /\ lookups[j].key = cache_file'.rows[i].key
    ]_vars

\* a second call has appended its new rows behind the rows of the first
C10_Witness ==
  /\ calls = 2 /\ geo_pc = "done"
  /\ new_rows # <<>>
  /\ Len(cache_file.rows) > Len(new_rows)

\* C11: each newly resolved entry is in the cache file before the lookup
\* for the next key is issued: at every point of the loop the file holds a
\* row for every key a lookup of this call has resolved.
C11_EntryWrittenBeforeNextLookup ==
  geo_pc = "loop" =>
    \A j \in DOMAIN lookups :
      lookups[j].found =>
        \E i \in DOMAIN cache_file.rows : cache_file.rows[i].key = lookups[j].key

\* C12: no lookup is issued for a key present in the loaded cache or empty
\* after trimming, and so none for a key that an earlier call resolved and
\* wrote to the cache file (during the loop the file is as it was loaded).
C12_NoLookupForCachedKey ==
  geo_pc = "loop" =>
    \A j \in DOMAIN lookups :
      /\ Strip(lookups[j].key) # ""
      /\ \A k \in 1..(j - 1) :
           lookups[k].found => lookups[k].key # lookups[j].key
      /\ \A i \in DOMAIN cache_file.rows :
           cache_file.rows[i].key # lookups[j].key

\* C13: a call never raises for an outcome of a lookup, and a key with a
\* failed lookup is absent from the returned mapping and has no row among
\* those the call writes.
C13_FailedLookupLeavesNoEntry ==
  /\ geo_pc # "raised"
  /\ geo_pc = "done" =>
       \A j \in DOMAIN lookups :
         ~lookups[j].found =>
           /\ lookups[j].key \notin DOMAIN cache
           /\ \A i \in DOMAIN new_rows : new_rows[i].key # lookups[j].key

\* C14: the mapping a call returns is the loaded entries plus the newly
\* resolved ones, and equals the mapping obtained by reloading the cache
\* file after the call.
C14_ReturnEqualsReload ==
  geo_pc = "done" => cache = LoadCache(cache_file)

\* C15: a cache file that exists but is empty, unreadable or without the
\* key, lat and lon columns is treated as absent: no call raises.
C15_MalformedCacheIsAbsent ==
  geo_pc # "raised"

\* --------------------------------------------- claims on features.py
\* C16: _load_optional_csv never raises; it returns None for a file that
\* is missing, zero-length, unparseable, lacking a required column, or
\* without a row that has both coordinates, and otherwise a non-empty table
\* in which every row has a numeric lat and a numeric lon.
C16_LoadOptionalNoneOrNumeric ==
  load_result.called =>
    LET complete(row) == row.lat = LatText /\ row.lon = LonText
        unusable ==
          \/ load_file.kind \in {"absent", "zero_bytes", "unparseable"}
          \/ ~(load_required \subseteq load_file.cols)
          \/ \A i \in DOMAIN load_file.rows : ~complete(load_file.rows[i])
    IN  /\ load_result.none <=> unusable
        /\ ~load_result.none =>
             /\ load_result.rows # <<>>
             /\ \A i \in DOMAIN load_result.rows :
                  ~load_result.rows[i].lat.nan /\ ~load_result.rows[i].lon.nan
             /\ Len(load_result.rows) =
                  Cardinality({i \in DOMAIN load_file.rows : complete(load_file.rows[i])})

\* a file with a complete row and a row without longitude was loaded
C16_Witness ==
  /\ load_result.called /\ ~load_result.none
  /\ Len(load_result.rows) < Len(load_file.rows)

\* C17: features.main completes and writes a feature table whenever a
\* primary HDB table is found, whatever the state of the precise geocode
\* table, the transit table and the schools table.
C17_OptionalInputsNeverFail ==
  hdb_file.found =>
    /\ feat_pc # "raised"
    /\ feat_pc = "done" => features_out.exists

\* C18: a record without a prior coordinate whose (block, street_name) has
\* a row in the precise geocode table ends coordinate resolution with that
\* row's coordinate, not the town centroid.
C18_PreciseMatchWins ==
  (feat_pc \in {"distances", "write", "done", "raised"} /\ hdb_file.found) =>
    \A i \in DOMAIN hdb_file.rows :
      \A j \in DOMAIN geo_df.rows :
        ( /\ hdb_file.rows[i].lat.nan
          /\ StrStrip(hdb_file.rows[i].block) = geo_df.rows[j].block
          /\ StrStrip(hdb_file.rows[i].street_name) = geo_df.rows[j].street_name )
        => /\ feat_pc # "raised"
           /\ hdb[i].lat = geo_df.rows[j].lat
           /\ hdb[i].lon = geo_df.rows[j].lon

\* C19: the precise join is a fill: a record that has a coordinate before
\* the join keeps it after the join, also when the geocode table holds a
\* row for the record's (block, street_name).
C19_JoinKeepsPriorCoordinate ==
  (feat_pc \in {"centroid", "raised"} /\ hdb_file.found /\ ~geo_df.none) =>
    \A i \in DOMAIN hdb_file.rows :
      (~hdb_file.rows[i].lat.nan /\ ~hdb_file.rows[i].lon.nan) =>
        /\ feat_pc = "centroid"
        /\ hdb[i].lat = hdb_file.rows[i].lat
        /\ hdb[i].lon = hdb_file.rows[i].lon

\* C20: the centroid step gives a record that misses its coordinate the
\* centroid of its upper-cased town when TOWN_CENTROIDS has that town and
\* otherwise leaves its coordinate absent; a record with both lat and lon
\* is left unchanged.
C20_CentroidStep ==
  [][ (feat_pc = "centroid" /\ hdb_file.has_town) =>
        /\ DOMAIN hdb' = DOMAIN hdb
        /\ \A i \in DOMAIN hdb :
             IF ~hdb[i].lat.nan /\ ~hdb[i].lon.nan
             THEN hdb'[i] = hdb[i]
             ELSE IF hdb_file.rows[i].town = LowerPaddedTown
             THEN hdb'[i].lat = Num(13509) /\ hdb'[i].lon = Num(1038485)
             ELSE hdb'[i].lat.nan /\ hdb'[i].lon.nan
    ]_vars

\* the centroid step has run on a record without a coordinate in BISHAN,
\* written in lower case, next to a record that had its coordinate
C20_Witness ==
  /\ feat_pc = "distances"
  /\ hdb_file.has_town
  /\ Len(hdb) = 2
  /\ hdb_file.rows[1].lat.nan /\ hdb_file.rows[1].town = LowerPaddedTown
  /\ hdb[1].lat = Num(13509)
  /\ ~hdb_file.rows[2].lat.nan /\ ~hdb_file.rows[2].lon.nan
  /\ hdb[2].lat = hdb_file.rows[2].lat

C22_NearestIsMinimum ==
  nd_out.called =>
    /\ Len(nd_out.vals) = Len(nd_points)
    /\ \A i \in DOMAIN nd_points :
         LET p == nd_points[i]
             usable == {j \in DOMAIN nd_ref.rows :
                          ~nd_ref.rows[j].lat.nan /\ ~nd_ref.rows[j].lon.nan}
             d(j) == _haversine_m(p.lat.v, p.lon.v,
                                  nd_ref.rows[j].lat.v, nd_ref.rows[j].lon.v)
         IN  IF p.lat.nan \/ p.lon.nan \/ usable = {}
             THEN nd_out.vals[i].nan
             ELSE /\ ~nd_out.vals[i].nan
                  /\ \E j \in usable : nd_out.vals[i].v = d(j)
                  /\ \A j \in usable : nd_out.vals[i].v <= d(j)

\* two records were measured against a table holding a nearer point, a
\* farther point and a row without latitude
C22_Witness ==
  /\ nd_out.called
  /\ Len(nd_points) = 2 /\ Len(nd_ref.rows) = 2
  /\ nd_ref.rows[1].lat.nan
  /\ ~nd_out.vals[1].nan /\ ~nd_out.vals[2].nan
  /\ nd_out.vals[1] # nd_out.vals[2]

\* C23: for the same records and reference points the result is the same
\* for every batch size, from 1 to beyond the record count.
C23_BatchSizeInvariant ==
  nd_prev.kind = "batch" => nd_out.vals = nd_prev.vals

\* two records with distances were computed in one batch and in batches of one
C23_Witness ==
  /\ nd_prev.kind = "batch"
  /\ Len(nd_points) = 2
  /\ nd_batch = 1
  /\ ~nd_out.vals[1].nan /\ ~nd_out.vals[2].nan

\* C24: with an absent or empty reference table the result is all absent
\* and as long as the input, for every batch size.
C24_NoReferenceAllAbsent ==
  (nd_out.called /\ (nd_ref.none \/ nd_ref.rows = <<>>)) =>
    /\ Len(nd_out.vals) = Len(nd_points)
    /\ \A i \in DOMAIN nd_out.vals : nd_out.vals[i].nan

\* two records with coordinates were measured against an empty table
C24_Witness ==
  /\ nd_out.called
  /\ ~nd_ref.none /\ nd_ref.rows = <<>>
  /\ Len(nd_points) = 2 /\ ~nd_points[1].lat.nan
  /\ Len(nd_out.vals) = 2

\* C26: a reference point added to the table never increases a record's
\* nearest distance, and one strictly closer to a record than every
\* reference point before strictly decreases it.
C26_MoreReferencesNeverFarther ==
  nd_prev.kind = "ref" =>
    \A i \in DOMAIN nd_points :
      ~nd_prev.vals[i].nan =>
        LET p == nd_points[i]
            q == nd_ref.rows[Len(nd_ref.rows)]
        IN  /\ ~nd_out.vals[i].nan
            /\ nd_out.vals[i].v <= nd_prev.vals[i].v
            /\ ( /\ ~q.lat.nan /\ ~q.lon.nan
                 /\ _haversine_m(p.lat.v, p.lon.v, q.lat.v, q.lon.v) < nd_prev.vals[i].v )
               => nd_out.vals[i].v < nd_prev.vals[i].v

\* a nearer reference point was added and the distance went down
C26_Witness ==
  /\ nd_prev.kind = "ref"
  /\ Len(nd_points) >= 1
  /\ ~nd_prev.vals[1].nan
  /\ nd_out.vals[1].v < nd_prev.vals[1].v

HdbDone == hdbr_pc = "done"
CkanFailed == hdbr_seen.ckan \in {"error", "no_records"}

\* C28 as stated: when the CKAN fetch fails and the local fallback file
\* exists, fetch_hdb_resale_real writes that file's rows to out_path and
\* returns without raising; when the fallback file does not exist it raises
\* FileNotFoundError; it never returns without a table at out_path.
C28_ExistingFallbackAlwaysReturns ==
  HdbDone =>
    /\ (CkanFailed /\ hdbr_seen.fallback.kind # "absent") =>
         /\ hdbr_result = "returned"
         /\ hdbr_out.rows = hdbr_seen.fallback.rows
    /\ (CkanFailed /\ hdbr_seen.fallback.kind = "absent") =>
         hdbr_result = "FileNotFoundError"
    /\ hdbr_result = "returned" => hdbr_out.kind = "table"

\* C28: when the CKAN fetch fails, fetch_hdb_resale_real returns with the
\* fallback file's rows at out_path (a cell pandas reads as missing written
\* empty) if pandas can read that file, raises the read error if the file
\* exists but cannot be read, and raises FileNotFoundError if it does not
\* exist; it never returns without a table at out_path.
C28_FallbackOrFatal ==
  HdbDone =>
    /\ hdbr_result = "returned" => hdbr_out.kind = "table"
    /\ CkanFailed =>
         LET fb == hdbr_seen.fallback
         IN  /\ fb.kind = "absent" =>
                  hdbr_result = "FileNotFoundError"
             /\ fb.kind \in {"zero_bytes", "unparseable"} =>
                  hdbr_result = "ReadError"
             /\ fb.kind = "table" =>
                  /\ hdbr_result = "returned"
                  /\ Len(hdbr_out.rows) = Len(fb.rows)
                  /\ \A i \in DOMAIN fb.rows :
                       /\ hdbr_out.rows[i].lease_commence_year =
                            fb.rows[i].lease_commence_year
                       /\ hdbr_out.rows[i].block =
                            (IF fb.rows[i].block = "NA" THEN ""
                             ELSE fb.rows[i].block)

C28_Witness ==
  /\ HdbDone
  /\ CkanFailed
  /\ hdbr_seen.fallback.kind = "table"
  /\ Len(hdbr_seen.fallback.rows) > 0
  /\ hdbr_result = "returned"
  /\ Len(hdbr_out.rows) > 0

\* ------------------------------------------------ claims on poll_download
NotReadyPolls(trace) ==
  Cardinality({i \in DOMAIN trace : trace[i].ev = "not_ready"})

\* C29: poll_download makes at most `retries` polls, sleeps sleep_s after
\* every poll that is not ready, returns at the first poll that reports a
\* URL, and raises TimeoutError once `retries` polls were all not ready;
\* tier 1 of fetch_mrt_exits_real then fails and tier 2 is next: the run
\* has not raised.
C29_BoundedPollThenTier2 ==
  /\ Polls(poll_trace) <= retries
  /\ \A i \in DOMAIN poll_trace :
       /\ (poll_trace[i].ev = "not_ready" /\ i < Len(poll_trace)) =>
            poll_trace[i + 1] = [ev |-> "sleep", s |-> sleep_s]
       /\ poll_trace[i].ev = "sleep" =>
            (i > 1 /\ poll_trace[i - 1].ev = "not_ready")
       /\ poll_trace[i].ev \in {"url", "error"} => i = Len(poll_trace)
  /\ poll_pc = "url" =>
       (poll_trace # <<>> /\ poll_trace[Len(poll_trace)].ev = "url")
  /\ poll_pc = "timeout" <=>
       ( /\ poll_pc \notin {"idle", "request", "sleep"}
         /\ NotReadyPolls(poll_trace) = retries )
  /\ ( /\ poll_pc = "idle"
       /\ NotReadyPolls(poll_trace) = retries
       /\ fn = "mrt" /\ log # <<>> ) =>
       /\ log[1] = [tier |-> 1, result |-> "fail", table |-> <<>>, net |-> "error"]
       /\ Len(log) = 1 => (pc = "tier2" /\ result = "none")

C29_Witness ==
  /\ poll_pc = "idle"
  /\ NotReadyPolls(poll_trace) = retries
  /\ fn = "mrt" /\ Len(log) = 1
  /\ pc = "tier2"

\* --------------------------------------------- claims on the Overpass tier
\* C30 as stated: the Overpass tier contacts its endpoints in listed order,
\* the next one only after the previous attempt failed, and reports tier
\* failure only after every endpoint has been attempted.
C30_FailsOnlyAfterEveryEndpoint ==
  [][ (fn = "mrt" /\ pc = "tier3") =>
        /\ (pc' = "tier3" /\ endpoint' # endpoint) => endpoint' = endpoint + 1
        /\ pc' = "tier4" => endpoint = NumEndpoints ]_vars

\* ------------------------------------------- claims on the courtesy delay
\* C31 as stated: every external geocoder lookup, whether it succeeds,
\* returns an empty result list or fails with an error or a timeout, is
\* followed by the courtesy delay before the next lookup is issued.
C31_DelayAfterEveryLookup ==
  \A i \in DOMAIN lookups : i < Len(lookups) => lookups[i].slept

\* ----------------------------------------------- claims on _ckan_fetch_all
\* C32 as stated: _ckan_fetch_all returns every record of the resource
\* exactly once and in offset order, for any server that answers each
\* request with HTTP 422 or with a non-empty run of at most `limit` of the
\* records remaining at the offset (an empty page only when none remain).
C32_ReturnsEveryRecordOnce ==
  (ck_pc = "done" /\ ck_last \in {"page", "empty"}) =>
    ck_frames = [i \in 1..ck_records |-> i]

\* 2 to the power n
RECURSIVE TwoTo(_)
TwoTo(n) == IF n = 0 THEN 1 ELSE 2 * TwoTo(n - 1)

\* C33: a 422 while limit is above min_limit is answered by asking the same
\* offset again with limit halved but not below min_limit; a 422 at limit
\* equal to min_limit raises; limit never increases and offset never
\* decreases while the loop runs; the consecutive retries at one offset are
\* bounded by the number of halvings from limit_start down to min_limit.
C33_BackoffBounded ==
  [][ ck_pc = "loop" =>
        /\ ck_limit' <= ck_limit
        /\ ck_offset' >= ck_offset
        /\ (ck_last' = "422" /\ ck_backoffs' # ck_backoffs /\ ck_limit > ck_min_limit) =>
             /\ ck_pc' = "loop"
             /\ ck_offset' = ck_offset
             /\ ck_limit' >= ck_min_limit
             /\ ck_limit' >= ck_limit \div 2
             /\ ck_limit' < ck_limit
             /\ 2 * ck_limit' <= ck_limit \/ ck_limit' = ck_min_limit
        /\ (ck_last' = "422" /\ ck_pc' = "loop") => ck_limit > ck_min_limit
        /\ (ck_last' = "422" /\ ck_limit = ck_min_limit /\ ck_pc' # ck_pc) =>
             ck_pc' = "raised"
        /\ (ck_backoffs' > 0) =>
             TwoTo(ck_backoffs' - 1) * ck_min_limit < ck_limit_start ]_vars

C33_Witness ==
  /\ ck_pc = "loop"
  /\ ck_backoffs = 2
  /\ ck_limit = ck_min_limit
  /\ ck_offset > 0

C35_JoinKeepsEveryRecordOnce ==
  (feat_pc \in {"centroid", "raised"} /\ hdb_file.found /\ ~geo_df.none) =>
    /\ feat_pc = "centroid"
    /\ Len(hdb) = Len(hdb_file.rows)
    /\ \A i \in DOMAIN hdb_file.rows :
         /\ hdb[i].block = StrStrip(hdb_file.rows[i].block)
         /\ hdb[i].street_name = StrStrip(hdb_file.rows[i].street_name)

\* -------------------------------------------- claims on _parse_description
WhitespaceOnly(sep) == \A i \in DOMAIN sep : sep[i] = " "

\* C36 as stated: _parse_description returns the station name and the exit
\* code found in the value cells that follow the STATION_NA and EXIT_CODE
\* header cells when header cell and value cell are adjacent or separated
\* only by whitespace; for a description that is not a string it returns
\* (absent, absent).
C36_ParsesAdjacentCells ==
  pd_out.called =>
    IF ~pd_desc.isstr
    THEN ~pd_out.station.found /\ ~pd_out.exit_code.found
    ELSE /\ (pd_desc.station.present /\ WhitespaceOnly(pd_desc.station.sep)) =>
              pd_out.station = [found |-> TRUE, text |-> TokStrip(pd_desc.station.value)]
         /\ (pd_desc.exit_code.present /\ WhitespaceOnly(pd_desc.exit_code.sep)) =>
              pd_out.exit_code = [found |-> TRUE, text |-> TokStrip(pd_desc.exit_code.value)]

====
